---- MODULE Spec2Model ----
(***************************************************************************)
(* claudecord: a Discord relay bot in front of a completion provider.      *)
(*                                                                         *)
(* Texts are sequences of tokens: a token is either one of the markers the *)
(* code writes ("<think>", "Okay", "\nWait", "</think>", the fixed error   *)
(* text), a whitespace character (" ", "\n") or a piece of text that does  *)
(* not end in whitespace.  str.rstrip() therefore removes exactly the      *)
(* trailing whitespace tokens.                                             *)
(***************************************************************************)
EXTENDS Integers, Sequences, FiniteSets, TLC

(***************************************************************************)
(* Bounds of the model.                                                    *)
(***************************************************************************)
StubLen == 3         \* length of the provider stub's cyclic fragment script
MaxStored == 23      \* most turns in the log a storage scenario starts from
MaxOps == 2          \* most direct storage calls in one storage scenario
MaxInbound == 2      \* most inbound messages in a run of the whole bot
MaxPrefMsgs == 3     \* most inbound messages in a run of the preference commands
MaxPrefMentions == 1 \* most mentions among them
MaxRaceMsgs == 3     \* most inbound messages in a run of deletion against requests
MaxResolveCalls == 1 \* most direct calls of send_msg in a run with attachment references
MaxRagJobs == 3      \* most calls of add_paper and process_query in a run of the paper index
MaxRagQueries == 2
\* mentions handled at the same time in one channel
MaxShared == 2   \* most process_query calls among them

(***************************************************************************)
(* Program constants.                                                      *)
(***************************************************************************)
EFFORT_MIN == 1          \* main.py:496
EFFORT_MAX == 20         \* main.py:499
EFFORT_DEFAULT == 6      \* main.py:470 and main.py:322
HISTORY_LIMIT == 20      \* conversation_mem.py:69

OPEN_MARK == "<think>"
CLOSE_MARK == "</think>"
WAIT_MARK == "\nWait"
THINK_PREFILL == <<OPEN_MARK, "Okay">>
THINK_ERROR == <<"error in test-time scaling">>
SEND_ERROR == <<"i'm sorry, i encountered an error while processing your request.">>
S1_PROMPT == "S1_PROMPT"
SYSTEM_PROMPT == "SYSTEM_PROMPT"

Whitespace == {" ", "\n"}

(***************************************************************************)
(* Text helpers.                                                           *)
(***************************************************************************)
RECURSIVE rstrip(_)
rstrip(s) ==
    IF s = <<>> THEN <<>>
    ELSE IF s[Len(s)] \in Whitespace THEN rstrip(SubSeq(s, 1, Len(s) - 1))
    ELSE s

RECURSIVE Count(_, _)
Count(s, tok) ==
    IF s = <<>> THEN 0
    ELSE (IF Head(s) = tok THEN 1 ELSE 0) + Count(Tail(s), tok)

IsPrefix(p, s) == Len(p) <= Len(s) /\ SubSeq(s, 1, Len(p)) = p

Reverse(s) == [i \in 1..Len(s) |-> s[Len(s) + 1 - i]]

Take(s, n) == SubSeq(s, 1, IF Len(s) < n THEN Len(s) ELSE n)

(***************************************************************************)
(* The chat surface's identities.                                          *)
(***************************************************************************)
Users == {"u1", "u2"}
Channels == {"c1", "c2"}
CLAUDE == "claude"                 \* author.user_id of a response turn
UserName(u) == IF u = CLAUDE THEN "Claude" ELSE IF u = "u1" THEN "alice" ELSE "bob"

\* str(message.id) and 'claude_' + str(message.id)
StrId(n) == <<ToString(n)>>
ClaudeId(message_id) == <<"claude_">> \o message_id

(***************************************************************************)
(* ConversationStorage (conversation_mem.py).  The collection              *)
(* channel_messages is the sequence of its documents in timestamp order    *)
(* (insert_one stamps datetime.utcnow()); attachments maps the generated   *)
(* _id to the document.                                                    *)
(***************************************************************************)
\* base64 over a two-valued byte: each byte becomes one character
B64Char == <<"A", "/">>
b64encode(bytes) == [i \in 1..Len(bytes) |-> B64Char[bytes[i] + 1]]
b64decode(chars) == [i \in 1..Len(chars) |-> (CHOOSE b \in 0..1 : B64Char[b + 1] = chars[i])]

TextBlock(text) == [type |-> "text", text |-> text]
ImageBlock(media_type, data) ==
    [type |-> "image", source |-> [type |-> "base64", media_type |-> media_type, data |-> data]]

\* the document update_convo inserts
MessageDoc(message_id, channel_id, user_id, username, is_bot, content) ==
    [message_id |-> message_id,
     channel_id |-> channel_id,
     author |-> [user_id |-> user_id, username |-> username, is_bot |-> is_bot],
     content |-> content]

\* bug variants of get_convo: a limit one short; newest first
get_convo_Limit19(msgs, channel_id) ==
    LET found == SelectSeq(msgs, LAMBDA d : d.channel_id = channel_id)
    IN Reverse(Take(Reverse(found), HISTORY_LIMIT - 1))

get_convo_NoReverse(msgs, channel_id) ==
    LET found == SelectSeq(msgs, LAMBDA d : d.channel_id = channel_id)
    IN Take(Reverse(found), HISTORY_LIMIT)

\* find({'channel_id': c}).sort('timestamp', -1).limit(20), then reversed
get_convo(msgs, channel_id) ==
    LET found == SelectSeq(msgs, LAMBDA d : d.channel_id = channel_id)
        newest_first == Reverse(found)
        limited == Take(newest_first, HISTORY_LIMIT)
    IN Reverse(limited)

\* bug variant: the text of a block is stored without its trailing whitespace
update_convo_Stripped(msgs, channel_id, message) ==
    Append(msgs, MessageDoc(message.message_id, channel_id, message.author.user_id,
                            message.author.username, message.author.is_bot,
                            [i \in 1..Len(message.content) |->
                                IF message.content[i].type = "text"
                                THEN TextBlock(rstrip(message.content[i].text))
                                ELSE message.content[i]]))

\* bug variant: the loaded window is written back with the new turn
update_convo_Rewrite(msgs, channel_id, message) ==
    Append(get_convo(msgs, channel_id),
           MessageDoc(message.message_id, channel_id, message.author.user_id,
                      message.author.username, message.author.is_bot, message.content))

\* insert_one(message_doc)
update_convo(msgs, channel_id, message) ==
    Append(msgs, MessageDoc(message.message_id, channel_id, message.author.user_id,
                            message.author.username, message.author.is_bot, message.content))

\* insert_one({user_id, filename, content: b64}) under a fresh _id
store_attachment(atts, oid, user_id, filename, content) ==
    [i \in DOMAIN atts \cup {oid} |->
        IF i = oid
        THEN [user_id |-> user_id, filename |-> filename, content |-> b64encode(content)]
        ELSE atts[i]]

NoAttachment == <<>>

\* init builds a unique index on attachment_id, a field no stored document
\* carries: every document is indexed under null, so insert_one raises
\* DuplicateKeyError as soon as the collection holds a document
DuplicateKey(atts) == DOMAIN atts # {}

\* the outcomes of store_attachment's insert_one: the server may be out of
\* reach at any time; otherwise the unique index decides
InsertOutcomes(atts) ==
    {"ConnectionFailure"} \cup (IF DuplicateKey(atts) THEN {"DuplicateKeyError"} ELSE {"ok"})

\* find_one({'_id': id}) -> (filename, bytes) or None
get_attachment(atts, attachment_id) ==
    IF attachment_id \in DOMAIN atts
    THEN <<atts[attachment_id].filename, b64decode(atts[attachment_id].content)>>
    ELSE NoAttachment

\* delete_many({'channel_id': c})
delete_channel_convo(msgs, channel_id) ==
    SelectSeq(msgs, LAMBDA d : d.channel_id # channel_id)

\* delete_user_convo, statement by statement
\* find({'author.user_id': u}, {'message_id': 1}) -> message_ids
UserMessageIds(msgs, user_id) ==
    LET mine == SelectSeq(msgs, LAMBDA d : d.author.user_id = user_id)
    IN [i \in 1..Len(mine) |-> mine[i].message_id]

\* delete_many({'author.user_id': u})
DeleteUserMessages(msgs, user_id) ==
    SelectSeq(msgs, LAMBDA d : d.author.user_id # user_id)

\* delete_one({'message_id': m}): the first match goes
DeleteOneMessage(msgs, message_id) ==
    IF \E i \in 1..Len(msgs) : msgs[i].message_id = message_id
    THEN LET i == CHOOSE j \in 1..Len(msgs) :
                    /\ msgs[j].message_id = message_id
                    /\ \A k \in 1..(j - 1) : msgs[k].message_id # message_id
         IN SubSeq(msgs, 1, i - 1) \o SubSeq(msgs, i + 1, Len(msgs))
    ELSE msgs

\* for msg_id in message_ids: delete_one({'message_id': f'claude_{msg_id}'})
RECURSIVE DeleteResponses(_, _)
DeleteResponses(msgs, message_ids) ==
    IF message_ids = <<>> THEN msgs
    ELSE DeleteResponses(DeleteOneMessage(msgs, ClaudeId(Head(message_ids))), Tail(message_ids))

\* bug variant: the user's attachments are kept
DeleteUserAttachments_Keep(atts, user_id) == atts

\* attachments.delete_many({'user_id': u})
DeleteUserAttachments(atts, user_id) ==
    [i \in {j \in DOMAIN atts : atts[j].user_id # user_id} |-> atts[i]]

(***************************************************************************)
(* The completion provider, as a stub: the k-th continuation request gets  *)
(* the k-th fragment of a cyclic script, the final request gets `final`.   *)
(* With a stop boundary the provider stops before the boundary, so no      *)
(* fragment holds the close marker; the final text is not so restricted.   *)
(***************************************************************************)
Fragments == { <<"A">>, <<"B">>, <<"C", " ", "D", "\n", " ">> }
Finals == { <<"Z">>, <<"Z", "\n">>, <<CLOSE_MARK, "Z">> }
Stubs == [frags : [1..StubLen -> Fragments], final : Finals]

StubFragment(st, k) == st.frags[((k - 1) % StubLen) + 1]

\* messages handed to the controller when it is invoked on its own
SampleMessages == << [role |-> "user", content |-> <<[type |-> "text", text |-> <<"<", "alice", ">: ", "hi">>]>>] >>

VARIABLES
    think,      \* the running get_scaled_thinking invocation (its locals and position)
    requests,   \* every request made to the completion provider, in order
    returned,   \* what the provider returned to the scaled-thinking requests, in order
    stub,       \* the provider's script
    channel_messages,   \* storage.messages: the documents, oldest first
    attachments,        \* storage.attachments: _id -> document
    next_oid,           \* the next generated _id
    user_preferences,   \* storage.db.user_preferences: user_id -> preferences
    last,       \* the last storage call made directly and what it returned
    ops,        \* number of direct storage calls made
    tasks,      \* one handler run per inbound message: the message, position and locals
    invoked,    \* the round budgets get_scaled_thinking has been invoked with
    disk,       \* the paths that exist under the working directory (papers_dir and below)
    manifest,   \* papers_dir/manifest.csv: whether it exists, and its rows
    docs,       \* RagProcessor.docs: the paths in the permanent index
    jobs        \* one run per call of add_paper or process_query: position and locals

thinkVars == <<think, requests, returned, stub>>
storeVars == <<channel_messages, attachments, next_oid, user_preferences>>
apiVars == <<last, ops>>
botVars == <<tasks, invoked>>
ragVars == <<disk, manifest, docs, jobs>>
vars == <<thinkVars, storeVars, apiVars, botVars, ragVars>>

NoPreferences == [u \in {} |-> 0]
NoAttachments == [i \in {} |-> 0]
NoCall == [op |-> "none"]

InitStoreEmpty ==
    /\ channel_messages = <<>>
    /\ attachments = NoAttachments
    /\ next_oid = 1
    /\ user_preferences = NoPreferences

InitApiIdle ==
    /\ last = NoCall
    /\ ops = 0

InitRagIdle ==
    /\ disk = {}
    /\ manifest = [exists |-> FALSE, rows |-> <<>>]
    /\ docs = {}
    /\ jobs = <<>>

InitBotIdle ==
    /\ tasks = <<>>
    /\ invoked = {}

ThinkIdle ==
    [pc |-> "idle", messages |-> <<>>, max_iterations |-> 0, iterations |-> 0,
     buffer |-> <<>>, result |-> <<>>, failed |-> FALSE]

\* claude_client.messages.create(system=..., messages=msgs + [assistant: buffer], stop_sequences=...)
ThinkingRequest(msgs, buffer, stop) ==
    [system |-> S1_PROMPT,
     messages |-> Append(msgs, [role |-> "assistant",
                                content |-> <<[type |-> "text", text |-> buffer]>>]),
     stop |-> stop]

(***************************************************************************)
(* get_scaled_thinking, one action per stretch between two awaits.         *)
(***************************************************************************)
\* entry: buffer = "<think>Okay"; iterations = max_iterations
ThinkStart(msgs, R) ==
    /\ think.pc = "idle"
    /\ think' = [ThinkIdle EXCEPT !.pc = "loop", !.messages = msgs,
                                  !.max_iterations = R, !.iterations = R,
                                  !.buffer = THINK_PREFILL]

\* bug variants of the loop head: one round too many; the sentinel in round 1 too
ThinkIssue_OffByOne ==
    /\ think.pc = "loop"
    /\ think.iterations >= 0
    /\ LET it == think.iterations - 1
           buf == IF it # think.max_iterations - 1
                  THEN Append(think.buffer, WAIT_MARK)
                  ELSE think.buffer
       IN /\ think' = [think EXCEPT !.pc = "await_cont", !.iterations = it, !.buffer = buf]
          /\ requests' = Append(requests, ThinkingRequest(think.messages, buf, <<CLOSE_MARK>>))
    /\ UNCHANGED <<returned, stub>>

ThinkIssue_AlwaysWait ==
    /\ think.pc = "loop"
    /\ think.iterations > 0
    /\ LET it == think.iterations - 1
           buf == Append(think.buffer, WAIT_MARK)
       IN /\ think' = [think EXCEPT !.pc = "await_cont", !.iterations = it, !.buffer = buf]
          /\ requests' = Append(requests, ThinkingRequest(think.messages, buf, <<CLOSE_MARK>>))
    /\ UNCHANGED <<returned, stub>>

\* loop head with iterations > 0, up to the await of the continuation request
ThinkIssue ==
    /\ think.pc = "loop"
    /\ think.iterations > 0
    /\ LET it == think.iterations - 1
           buf == IF it # think.max_iterations - 1
                  THEN Append(think.buffer, WAIT_MARK)
                  ELSE think.buffer
       IN /\ think' = [think EXCEPT !.pc = "await_cont", !.iterations = it, !.buffer = buf]
          /\ requests' = Append(requests, ThinkingRequest(think.messages, buf, <<CLOSE_MARK>>))
    /\ UNCHANGED <<returned, stub>>

\* the continuation request returns: buffer += continuation.content[0].text.rstrip()
ThinkContinue ==
    /\ think.pc = "await_cont"
    /\ LET frag == StubFragment(stub, Len(returned) + 1)
       IN /\ think' = [think EXCEPT !.pc = "loop", !.buffer = think.buffer \o rstrip(frag)]
          /\ returned' = Append(returned, frag)
    /\ UNCHANGED <<requests, stub>>

\* loop exit: buffer += "</think>", up to the await of the final request
ThinkClose ==
    /\ think.pc = "loop"
    /\ think.iterations <= 0
    /\ LET buf == Append(think.buffer, CLOSE_MARK)
       IN /\ think' = [think EXCEPT !.pc = "await_final", !.buffer = buf]
          /\ requests' = Append(requests, ThinkingRequest(think.messages, buf, <<>>))
    /\ UNCHANGED <<returned, stub>>

\* the final request returns: return buffer + final_msg.content[0].text.rstrip()
ThinkFinal ==
    /\ think.pc = "await_final"
    /\ think' = [think EXCEPT !.pc = "done",
                              !.iterations = think.max_iterations,
                              !.result = think.buffer \o rstrip(stub.final)]
    /\ returned' = Append(returned, stub.final)
    /\ UNCHANGED <<requests, stub>>

\* a request raises: except Exception -> return "error in test-time scaling"
ThinkFail ==
    /\ think.pc \in {"await_cont", "await_final"}
    /\ think' = [think EXCEPT !.pc = "done", !.result = THINK_ERROR, !.failed = TRUE]
    /\ UNCHANGED <<requests, returned, stub>>

ThinkStep == ThinkIssue \/ ThinkContinue \/ ThinkClose \/ ThinkFinal \/ ThinkFail

(***************************************************************************)
(* get_scaled_thinking as a function of the provider's behaviour: the      *)
(* requests it issues and the text it returns when request number failAt   *)
(* raises (failAt = 0: none does).  Used where an invocation runs inside a *)
(* message request that is interleaved with other handlers; the controller *)
(* touches no shared state between its awaits.                             *)
(***************************************************************************)
RECURSIVE ScaledLoop(_, _, _, _, _, _, _)
ScaledLoop(msgs, R, k, buffer, reqs, st, failAt) ==
    IF k <= R
    THEN LET buf == IF k > 1 THEN Append(buffer, WAIT_MARK) ELSE buffer
             rq == Append(reqs, ThinkingRequest(msgs, buf, <<CLOSE_MARK>>))
         IN IF failAt = k
            THEN [requests |-> rq, result |-> THINK_ERROR, failed |-> TRUE]
            ELSE ScaledLoop(msgs, R, k + 1, buf \o rstrip(StubFragment(st, k)), rq, st, failAt)
    ELSE LET buf == Append(buffer, CLOSE_MARK)
             rq == Append(reqs, ThinkingRequest(msgs, buf, <<>>))
         IN IF failAt = k
            THEN [requests |-> rq, result |-> THINK_ERROR, failed |-> TRUE]
            ELSE [requests |-> rq, result |-> buf \o rstrip(st.final), failed |-> FALSE]

get_scaled_thinking(msgs, max_iterations, st, failAt) ==
    ScaledLoop(msgs, max_iterations, 1, THINK_PREFILL, <<>>, st, failAt)

(***************************************************************************)
(* The bot (main.py).  An inbound message starts one run of on_message;    *)
(* a run is a task: the message, the position in the handler (pc) and the  *)
(* handler's locals.  Every action is the stretch of one handler from the  *)
(* return of one await to the next, so tasks interleave at the awaits.     *)
(***************************************************************************)
MSG_READING == <<"reading your attachments">>
MSG_THINKING == <<"thinking">>
MSG_NO_CONTENT == <<"please provide some text, images, or files for me to analyze.">>
MSG_SCALE_ON == <<"switched to test-time scaling mode">>
MSG_SCALE_OFF == <<"switched to normal mode">>
MSG_NEED_SCALE == <<"error: please enable test-time scaling mode first using '>scale'">>
MSG_EFFORT_LOW == <<"reasoning effort must be at least 1">>
MSG_EFFORT_HIGH == <<"reasoning effort cannot exceed 20 to prevent excessive api usage">>
MSG_EFFORT_SET(effort) == <<"reasoning effort set to ", ToString(effort), " iterations">>
MSG_STATUS(mode, effort) == <<"current mode: ", mode, "reasoning effort: ", effort>>
MSG_CLEAR_ASK == <<"are you sure you want to clear this channel's conversation history?">>
MSG_CLEAR_CANCELLED == <<"clearing cancelled. you did not confirm in time.">>
MSG_CLEAR_DONE == <<"channel conversation history has been cleared.">>
MSG_DELETE_ASK == <<"are you sure you want to delete your conversation history across all channels?">>
MSG_DELETE_CANCELLED == <<"deletion cancelled. you did not confirm in time.">>
MSG_DELETE_DONE == <<"your conversation history has been deleted from all channels.">>

CHUNK_SIZE == 2000

Min(a, b) == IF a < b THEN a ELSE b

\* [s[i:i+n] for i in range(0, len(s), n)]
Chunks(s, n) ==
    [k \in 1..((Len(s) + n - 1) \div n) |-> SubSeq(s, (k - 1) * n + 1, Min(k * n, Len(s)))]

\* str.lower(), token by token
LowerToken(tok) == IF tok = "Y" THEN "y" ELSE IF tok = "N" THEN "n" ELSE tok
lower(s) == [i \in 1..Len(s) |-> LowerToken(s[i])]

\* an inbound message of the chat surface
Inbound(author, channel, mention, text, files, cmd, value) ==
    [author |-> author, channel |-> channel, mention |-> mention, text |-> text,
     files |-> files, cmd |-> cmd, value |-> value]

NoMessage == [id |-> 0]
DefaultPreferences == [scaling_mode |-> FALSE]

NewTask(id, m) ==
    [id |-> id, msg |-> m, pc |-> "start",
     content |-> <<>>,              \* on_message / send_msg: content
     given |-> <<>>,                \* the content a direct caller of send_msg passed
     reading_msg |-> "none",        \* none, shown, deleted
     thinking_msg |-> "none",
     user_prefs |-> DefaultPreferences,
     conversation |-> <<>>,
     messages |-> <<>>,
     response |-> <<>>,
     message_ids |-> <<>>,          \* delete_user_convo: message_ids
     confirmed_by |-> NoMessage,    \* the message that satisfied wait_for's check
     timed_out |-> FALSE,
     raised |-> "",                 \* the exception that ended the handler, if any
     asked |-> <<>>,                \* the provider requests this run has made, in order
     sent |-> <<>>]                 \* the texts this run has posted, in order

\* a handler that has returned holds no locals any more
Returned(task) ==
    IF task.pc = "done"
    THEN [task EXCEPT !.content = <<>>, !.user_prefs = DefaultPreferences,
                      !.conversation = <<>>, !.messages = <<>>, !.response = <<>>,
                      !.message_ids = <<>>]
    ELSE task

Say(task, text) == [task EXCEPT !.sent = Append(task.sent, text)]

\* dict.get
PrefScaling(p) == IF "scaling_mode" \in DOMAIN p THEN p.scaling_mode ELSE FALSE
PrefEffort(p) == IF "reasoning_effort" \in DOMAIN p THEN p.reasoning_effort ELSE EFFORT_DEFAULT

\* get_user_preferences: find_one -> doc["preferences"] or the default
get_user_preferences(user_id) ==
    IF user_id \in DOMAIN user_preferences THEN user_preferences[user_id]
    ELSE DefaultPreferences

\* update_user_preferences: update_one(..., {"$set": {"preferences": p}}, upsert=True)
update_user_preferences(coll, user_id, preferences) ==
    [u \in DOMAIN coll \cup {user_id} |-> IF u = user_id THEN preferences ELSE coll[u]]

\* user_preferences.delete_one({"user_id": u})
delete_user_preferences(coll, user_id) ==
    [u \in DOMAIN coll \ {user_id} |-> coll[u]]

Step(t, task) == tasks' = [tasks EXCEPT ![t] = Returned(task)]

\* bot.process_commands(msg): where the handler goes on after the mention part
CommandEntry(m) ==
    CASE m.cmd = "scale" -> "scale_read"
      [] m.cmd = "effort" -> "effort_read"
      [] m.cmd = "status" -> "status_read"
      [] m.cmd = "clear-channel" -> "confirm_ask"
      [] m.cmd = "delete-history" -> "confirm_ask"
      [] OTHER -> "done"

\* send_msg, to its first await: the indicator is posted (an empty content
\* returns at once); with no content on_message asks for some
SendMsg(task) ==
    IF task.content # <<>>
    THEN Say([task EXCEPT !.pc = "prefs", !.thinking_msg = "shown"], MSG_THINKING)
    ELSE Say([task EXCEPT !.pc = CommandEntry(task.msg)], MSG_NO_CONTENT)

\* bug variant: the author of the message is not looked at
OnMessage_NoSelfCheck(task) ==
    LET m == task.msg
        content == IF m.text # <<>> THEN <<TextBlock(m.text)>> ELSE <<>>
    IN IF ~m.mention
       THEN [task EXCEPT !.pc = CommandEntry(m)]
       ELSE IF m.files # <<>>
       THEN Say([task EXCEPT !.pc = "files", !.content = content, !.reading_msg = "shown"],
                MSG_READING)
       ELSE SendMsg([task EXCEPT !.content = content])

\* on_message, to its first await
OnMessage(task) ==
    LET m == task.msg
        content == IF m.text # <<>> THEN <<TextBlock(m.text)>> ELSE <<>>
    IN IF m.author = CLAUDE
       THEN [task EXCEPT !.pc = "done"]
       ELSE IF ~m.mention
       THEN [task EXCEPT !.pc = CommandEntry(m)]
       ELSE IF m.files # <<>>
       THEN Say([task EXCEPT !.pc = "files", !.content = content, !.reading_msg = "shown"],
                MSG_READING)
       ELSE SendMsg([task EXCEPT !.content = content])

\* process_file for the next attachment: store_attachment, then the blocks
\* (PDF extraction is not modelled: the files are images and text files)
ProcessFile(t) ==
    LET task == tasks[t]
        m == task.msg
        i == Len(task.content) - (IF m.text # <<>> THEN 1 ELSE 0) + 1
        file == m.files[i]
        blocks == IF file.content_type = "image/png"
                  THEN <<ImageBlock(file.content_type, b64encode(file.bytes))>>
                  ELSE <<TextBlock(<<"text of ", file.filename>>)>>
    IN /\ task.pc = "files"
       /\ i <= Len(m.files)
       /\ \E outcome \in InsertOutcomes(attachments) :
            IF outcome = "ok"
            THEN /\ attachments' = store_attachment(attachments, next_oid, m.author,
                                                    file.filename, file.bytes)
                 /\ next_oid' = next_oid + 1
                 /\ Step(t, [task EXCEPT !.content = task.content \o blocks])
            ELSE /\ Step(t, [task EXCEPT !.pc = "done", !.raised = "store_attachment"])
                 /\ UNCHANGED <<attachments, next_oid>>
       /\ UNCHANGED <<thinkVars, channel_messages, user_preferences, apiVars, invoked, ragVars>>

\* reading_msg.delete(), then send_msg to its first await
FilesRead(t) ==
    LET task == tasks[t]
        m == task.msg
    IN /\ task.pc = "files"
       /\ Len(task.content) - (IF m.text # <<>> THEN 1 ELSE 0) = Len(m.files)
       /\ Step(t, SendMsg([task EXCEPT !.reading_msg = "deleted"]))
       /\ UNCHANGED <<thinkVars, storeVars, apiVars, invoked, ragVars>>

\* get_claude_response: user_prefs = await get_user_preferences(user_id)
ReqPrefs(t) ==
    LET task == tasks[t]
    IN /\ task.pc = "prefs"
       /\ \E ok \in BOOLEAN :
            IF ok
            THEN Step(t, [task EXCEPT !.pc = "load",
                                      !.user_prefs = get_user_preferences(task.msg.author)])
            ELSE Step(t, [task EXCEPT !.pc = "except", !.raised = "get_user_preferences"])
       /\ UNCHANGED <<thinkVars, storeVars, apiVars, invoked, ragVars>>

IsAttachmentRef(item) == item.type = "image" /\ item.source.type = "attachment_ref"

HasAttachmentRef(content) == \E i \in 1..Len(content) : IsAttachmentRef(content[i])

\* conversation = await storage.get_convo(channel_id); the loop over
\* new_content awaits only at an attachment_ref
ReqLoad(t) ==
    LET task == tasks[t]
    IN /\ task.pc = "load"
       /\ \E ok \in BOOLEAN :
            Step(t, [task EXCEPT !.pc = IF HasAttachmentRef(task.content)
                                        THEN "resolve" ELSE "store_user",
                                 !.conversation =
                                     IF ok THEN get_convo(channel_messages, task.msg.channel)
                                     ELSE <<>>])
       /\ UNCHANGED <<thinkVars, storeVars, apiVars, invoked, ragVars>>

\* the loop over new_content: every attachment_ref is read and replaced, in
\* place, by its bytes; a missing attachment makes the unpacking of None raise
RECURSIVE Resolved(_, _)
Resolved(content, atts) ==
    IF content = <<>> THEN <<>>
    ELSE LET item == Head(content)
         IN <<IF IsAttachmentRef(item)
              THEN [item EXCEPT !.source =
                       [type |-> "base64", media_type |-> "image/png",
                        data |-> get_attachment(atts, item.source.attachment_id)[2]]]
              ELSE item>> \o Resolved(Tail(content), atts)

ResolveRaises(content, atts) ==
    \E i \in 1..Len(content) :
        /\ IsAttachmentRef(content[i])
        /\ get_attachment(atts, content[i].source.attachment_id) = NoAttachment

\* the item the loop over new_content is at: the first reference still there
NextRef(content) ==
    CHOOSE i \in 1..Len(content) :
        IsAttachmentRef(content[i]) /\ \A j \in 1..(i - 1) : ~IsAttachmentRef(content[j])

\* bug variant: a reference that cannot be read is dropped and the loop goes on
ReqResolve_Skip(t) ==
    LET task == tasks[t]
        i == NextRef(task.content)
        found == get_attachment(attachments, task.content[i].source.attachment_id)
    IN /\ task.pc = "resolve"
       /\ \E ok \in BOOLEAN :
            LET content == IF ~ok \/ found = NoAttachment
                           THEN SubSeq(task.content, 1, i - 1)
                                \o SubSeq(task.content, i + 1, Len(task.content))
                           ELSE [task.content EXCEPT ![i] =
                                    Head(Resolved(<<task.content[i]>>, attachments))]
            IN Step(t, [task EXCEPT !.content = content,
                                    !.pc = IF HasAttachmentRef(content)
                                           THEN "resolve" ELSE "store_user"])
       /\ UNCHANGED <<thinkVars, storeVars, apiVars, invoked, ragVars>>

\* filename, content = await storage.get_attachment(attachment_id);
\* item['source'] = {"type": "base64", "media_type": "image/png", "data": content}
\* (get_attachment returns None for a missing document and for a failed read)
ReqResolve(t) ==
    LET task == tasks[t]
        i == NextRef(task.content)
        found == get_attachment(attachments, task.content[i].source.attachment_id)
    IN /\ task.pc = "resolve"
       /\ \E ok \in BOOLEAN :
            IF ~ok \/ found = NoAttachment
            THEN Step(t, [task EXCEPT !.pc = "except", !.raised = "TypeError"])
            ELSE LET content == [task.content EXCEPT ![i] =
                                    Head(Resolved(<<task.content[i]>>, attachments))]
                 IN Step(t, [task EXCEPT !.content = content,
                                         !.pc = IF HasAttachmentRef(content)
                                                THEN "resolve" ELSE "store_user"])
       /\ UNCHANGED <<thinkVars, storeVars, apiVars, invoked, ragVars>>

\* f"<{username}>: {content[0]['text']}" raises on an empty content or a first
\* block without a text
HasLeadingText(content) == content # <<>> /\ "text" \in DOMAIN content[1]

FormatRaises(conversation, new_content) ==
    \/ \E i \in 1..Len(conversation) : ~HasLeadingText(conversation[i].content)
    \/ ~HasLeadingText(new_content)

Labelled(username, content) ==
    <<TextBlock(<<"<", username, ">: ">> \o content[1].text)>>

FormatMessages(conversation, username, new_content) ==
    [i \in 1..Len(conversation) |->
        [role |-> IF conversation[i].author.is_bot THEN "assistant" ELSE "user",
         content |-> Labelled(conversation[i].author.username, conversation[i].content)]]
    \o <<[role |-> "user", content |-> Labelled(username, new_content)]>>

UserTurn(task) ==
    [message_id |-> StrId(task.id),
     author |-> [user_id |-> task.msg.author, username |-> UserName(task.msg.author),
                 is_bot |-> FALSE],
     content |-> task.content]

ResponseTurn(task, text) ==
    [message_id |-> ClaudeId(StrId(task.id)),
     author |-> [user_id |-> CLAUDE, username |-> UserName(CLAUDE), is_bot |-> TRUE],
     content |-> <<TextBlock(text)>>]

\* await storage.update_convo(channel_id, message_doc), then the messages for
\* the provider are built
ReqStoreUser(t) ==
    LET task == tasks[t]
    IN /\ task.pc = "store_user"
       /\ \E ok \in BOOLEAN :
            IF ~ok
            THEN /\ Step(t, [task EXCEPT !.pc = "except", !.raised = "update_convo"])
                 /\ UNCHANGED channel_messages
            ELSE /\ channel_messages' =
                        update_convo(channel_messages, task.msg.channel, UserTurn(task))
                 /\ IF FormatRaises(task.conversation, task.content)
                    THEN Step(t, [task EXCEPT !.pc = "except", !.raised = "KeyError"])
                    ELSE Step(t, [task EXCEPT !.pc = "provider",
                                              !.messages = FormatMessages(task.conversation,
                                                   UserName(task.msg.author), task.content)])
       /\ UNCHANGED <<thinkVars, attachments, next_oid, user_preferences, apiVars, invoked, ragVars>>

PlainRequest(msgs) == [system |-> SYSTEM_PROMPT, messages |-> msgs, stop |-> <<>>]

\* plain mode: msg = await claude_client.messages.create(...); msg.content[0].text
ReqPlain(t) ==
    LET task == tasks[t]
    IN /\ task.pc = "provider"
       /\ ~PrefScaling(task.user_prefs)
       /\ \E ok \in BOOLEAN :
            LET asking == [task EXCEPT !.asked = Append(task.asked, PlainRequest(task.messages))]
            IN IF ok
               THEN Step(t, [asking EXCEPT !.pc = "store_resp", !.response = stub.final])
               ELSE Step(t, [asking EXCEPT !.pc = "except", !.raised = "provider"])
       /\ UNCHANGED <<thinkVars, storeVars, apiVars, invoked, ragVars>>

\* the requests of one controller run that may raise: none, the first, the last
FailPoints(effort) == {0, 1, effort + 1}

\* scaled mode, the controller run in one piece
ReqScaled(t) ==
    LET task == tasks[t]
        effort == PrefEffort(task.user_prefs)
    IN /\ task.pc = "provider"
       /\ PrefScaling(task.user_prefs)
       /\ \E failAt \in FailPoints(effort) :
            LET run == get_scaled_thinking(task.messages, effort, stub, failAt)
            IN Step(t, [task EXCEPT !.pc = "store_resp", !.response = run.result,
                                    !.asked = task.asked \o run.requests])
       /\ invoked' = invoked \cup {effort}
       /\ UNCHANGED <<thinkVars, storeVars, apiVars, ragVars>>

\* scaled mode, the controller run step by step: the call ...
ReqThink(t) ==
    LET task == tasks[t]
        effort == PrefEffort(task.user_prefs)
    IN /\ task.pc = "provider"
       /\ PrefScaling(task.user_prefs)
       /\ ThinkStart(task.messages, effort)
       /\ Step(t, [task EXCEPT !.pc = "thinking"])
       /\ invoked' = invoked \cup {effort}
       /\ UNCHANGED <<requests, returned, stub, storeVars, apiVars, ragVars>>

\* ... and its return
ReqThought(t) ==
    LET task == tasks[t]
    IN /\ task.pc = "thinking"
       /\ think.pc = "done"
       /\ think' = [think EXCEPT !.pc = "returned"]
       /\ Step(t, [task EXCEPT !.pc = "store_resp", !.response = think.result])
       /\ UNCHANGED <<requests, returned, stub, storeVars, apiVars, invoked, ragVars>>

\* bug variant: the window the request loaded is written back with its two turns
ReqStoreResponse_WriteBack(t) ==
    LET task == tasks[t]
        own == <<UserTurn(task), ResponseTurn(task, task.response)>>
        others == SelectSeq(channel_messages, LAMBDA d : d.channel_id # task.msg.channel)
    IN /\ task.pc = "store_resp"
       /\ channel_messages' =
             update_convo(update_convo(others \o task.conversation, task.msg.channel, own[1]),
                          task.msg.channel, own[2])
       /\ Step(t, [task EXCEPT !.pc = "send"])
       /\ UNCHANGED <<thinkVars, attachments, next_oid, user_preferences, apiVars, invoked, ragVars>>

\* await storage.update_convo(channel_id, response_doc); return assistant_response
ReqStoreResponse(t) ==
    LET task == tasks[t]
    IN /\ task.pc = "store_resp"
       /\ \E ok \in BOOLEAN :
            IF ok
            THEN /\ channel_messages' = update_convo(channel_messages, task.msg.channel,
                                                     ResponseTurn(task, task.response))
                 /\ Step(t, [task EXCEPT !.pc = "send"])
            ELSE /\ Step(t, [task EXCEPT !.pc = "except", !.raised = "update_convo"])
                 /\ UNCHANGED channel_messages
       /\ UNCHANGED <<thinkVars, attachments, next_oid, user_preferences, apiVars, invoked, ragVars>>

\* send_msg: the response goes out in chunks
SendChunks(t) ==
    LET task == tasks[t]
    IN /\ task.pc = "send"
       /\ Step(t, [task EXCEPT !.pc = "finally",
                               !.sent = task.sent \o Chunks(task.response, CHUNK_SIZE)])
       /\ UNCHANGED <<thinkVars, storeVars, apiVars, invoked, ragVars>>

\* send_msg: except Exception -> the apology
SendError(t) ==
    LET task == tasks[t]
    IN /\ task.pc = "except"
       /\ Step(t, Say([task EXCEPT !.pc = "finally"], SEND_ERROR))
       /\ UNCHANGED <<thinkVars, storeVars, apiVars, invoked, ragVars>>

\* send_msg: finally -> thinking_msg.delete()
DeleteThinking(t) ==
    LET task == tasks[t]
    IN /\ task.pc = "finally"
       /\ Step(t, [task EXCEPT !.pc = CommandEntry(task.msg), !.thinking_msg = "deleted"])
       /\ UNCHANGED <<thinkVars, storeVars, apiVars, invoked, ragVars>>

(***************************************************************************)
(* The commands.  A handler's closing ctx.send is part of its last step:   *)
(* it touches nothing another handler reads.                               *)
(***************************************************************************)
\* toggle_scaling: user_prefs = await get_user_preferences(user_id)
ScaleRead(t) ==
    LET task == tasks[t]
    IN /\ task.pc = "scale_read"
       /\ \E ok \in BOOLEAN :
            IF ok
            THEN Step(t, [task EXCEPT !.pc = "scale_write",
                                      !.user_prefs = get_user_preferences(task.msg.author)])
            ELSE Step(t, [task EXCEPT !.pc = "done", !.raised = "get_user_preferences"])
       /\ UNCHANGED <<thinkVars, storeVars, apiVars, invoked, ragVars>>

\* bug variant: the default budget is above the ceiling
ScalingOn_Above == [scaling_mode |-> TRUE, reasoning_effort |-> EFFORT_MAX + 1]

ScalingOn == [scaling_mode |-> TRUE, reasoning_effort |-> EFFORT_DEFAULT]

\* bug variant: switching to normal mode keeps a budget in the record
ScalingOff_WithEffort == [scaling_mode |-> FALSE, reasoning_effort |-> EFFORT_DEFAULT]

ScalingOff == [scaling_mode |-> FALSE]

\* toggle_scaling: await update_user_preferences(user_id, new_prefs); ctx.send
ScaleWrite(t) ==
    LET task == tasks[t]
        current_mode == PrefScaling(task.user_prefs)
        new_prefs == IF current_mode THEN ScalingOff ELSE ScalingOn
        message == IF current_mode THEN MSG_SCALE_OFF ELSE MSG_SCALE_ON
    IN /\ task.pc = "scale_write"
       /\ \E ok \in BOOLEAN :
            IF ok
            THEN /\ user_preferences' =
                       update_user_preferences(user_preferences, task.msg.author, new_prefs)
                 /\ Step(t, Say([task EXCEPT !.pc = "done"], message))
            ELSE /\ Step(t, [task EXCEPT !.pc = "done", !.raised = "update_user_preferences"])
                 /\ UNCHANGED user_preferences
       /\ UNCHANGED <<thinkVars, channel_messages, attachments, next_oid, apiVars, invoked, ragVars>>

\* bug variants of the validation: no upper limit; no lower limit
EffortVerdict_NoCeiling(effort) ==
    IF effort < EFFORT_MIN THEN "low" ELSE "ok"

EffortVerdict_NoFloor(effort) ==
    IF effort > EFFORT_MAX THEN "high" ELSE "ok"

\* set_reasoning_effort: the validation of the value
EffortVerdict(effort) ==
    IF effort < EFFORT_MIN THEN "low"
    ELSE IF effort > EFFORT_MAX THEN "high"
    ELSE "ok"

\* set_reasoning_effort: the read, the mode check and the validation
EffortRead(t) ==
    LET task == tasks[t]
        prefs == get_user_preferences(task.msg.author)
        verdict == EffortVerdict(task.msg.value)
    IN /\ task.pc = "effort_read"
       /\ \E ok \in BOOLEAN :
            IF ~ok
            THEN Step(t, [task EXCEPT !.pc = "done", !.raised = "get_user_preferences"])
            ELSE IF ~PrefScaling(prefs)
            THEN Step(t, Say([task EXCEPT !.pc = "done", !.user_prefs = prefs], MSG_NEED_SCALE))
            ELSE IF verdict = "low"
            THEN Step(t, Say([task EXCEPT !.pc = "done", !.user_prefs = prefs], MSG_EFFORT_LOW))
            ELSE IF verdict = "high"
            THEN Step(t, Say([task EXCEPT !.pc = "done", !.user_prefs = prefs], MSG_EFFORT_HIGH))
            ELSE Step(t, [task EXCEPT !.pc = "effort_write", !.user_prefs = prefs])
       /\ UNCHANGED <<thinkVars, storeVars, apiVars, invoked, ragVars>>

\* user_prefs["reasoning_effort"] = effort; await update_user_preferences; ctx.send
EffortWrite(t) ==
    LET task == tasks[t]
        effort == task.msg.value
        new_prefs == [scaling_mode |-> PrefScaling(task.user_prefs), reasoning_effort |-> effort]
    IN /\ task.pc = "effort_write"
       /\ \E ok \in BOOLEAN :
            IF ok
            THEN /\ user_preferences' =
                       update_user_preferences(user_preferences, task.msg.author, new_prefs)
                 /\ Step(t, Say([task EXCEPT !.pc = "done", !.user_prefs = new_prefs],
                                MSG_EFFORT_SET(effort)))
            ELSE /\ Step(t, [task EXCEPT !.pc = "done", !.raised = "update_user_preferences"])
                 /\ UNCHANGED user_preferences
       /\ UNCHANGED <<thinkVars, channel_messages, attachments, next_oid, apiVars, invoked, ragVars>>

\* check_status
StatusRead(t) ==
    LET task == tasks[t]
        prefs == get_user_preferences(task.msg.author)
        mode == IF PrefScaling(prefs) THEN "test-time scaling" ELSE "normal"
        effort == IF "reasoning_effort" \in DOMAIN prefs
                  THEN ToString(prefs.reasoning_effort) ELSE "n/a"
    IN /\ task.pc = "status_read"
       /\ \E ok \in BOOLEAN :
            IF ok
            THEN Step(t, Say([task EXCEPT !.pc = "done", !.user_prefs = prefs],
                             MSG_STATUS(mode, effort)))
            ELSE Step(t, [task EXCEPT !.pc = "done", !.raised = "get_user_preferences"])
       /\ UNCHANGED <<thinkVars, storeVars, apiVars, invoked, ragVars>>

\* clear_channel / delete_history: confirm_msg = await ctx.send(...); then
\* bot.wait_for('message', check=check, timeout=30.0) listens
ConfirmAsk(t) ==
    LET task == tasks[t]
    IN /\ task.pc = "confirm_ask"
       /\ Step(t, Say([task EXCEPT !.pc = "wait"],
                      IF task.msg.cmd = "clear-channel" THEN MSG_CLEAR_ASK ELSE MSG_DELETE_ASK))
       /\ UNCHANGED <<thinkVars, storeVars, apiVars, invoked, ragVars>>

\* bug variants of check: any author; any channel; any text
check_AnyAuthor(task, m) ==
    m.channel = task.msg.channel /\ lower(m.text) = <<"y">>

check_AnyChannel(task, m) ==
    m.author = task.msg.author /\ lower(m.text) = <<"y">>

\* def check(m)
check(task, m) ==
    /\ m.author = task.msg.author
    /\ m.channel = task.msg.channel
    /\ lower(m.text) = <<"y">>

\* asyncio.TimeoutError: await confirm_msg.edit(content="... cancelled ...")
ConfirmTimeout(t) ==
    LET task == tasks[t]
    IN /\ task.pc = "wait"
       /\ Step(t, Say([task EXCEPT !.pc = "done", !.timed_out = TRUE],
                      IF task.msg.cmd = "clear-channel" THEN MSG_CLEAR_CANCELLED
                      ELSE MSG_DELETE_CANCELLED))
       /\ UNCHANGED <<thinkVars, storeVars, apiVars, invoked, ragVars>>

\* clear_channel: await storage.delete_channel_convo(channel_id); ctx.send
ClearDelete(t) ==
    LET task == tasks[t]
    IN /\ task.pc = "confirmed"
       /\ task.msg.cmd = "clear-channel"
       /\ \E ok \in BOOLEAN :
            IF ok
            THEN /\ channel_messages' = delete_channel_convo(channel_messages, task.msg.channel)
                 /\ Step(t, Say([task EXCEPT !.pc = "done"], MSG_CLEAR_DONE))
            ELSE /\ Step(t, [task EXCEPT !.pc = "done", !.raised = "delete_channel_convo"])
                 /\ UNCHANGED channel_messages
       /\ UNCHANGED <<thinkVars, attachments, next_oid, user_preferences, apiVars, invoked, ragVars>>

\* delete_history -> delete_user_convo: the find of the user's message ids
DeleteFind(t) ==
    LET task == tasks[t]
    IN /\ task.pc = "confirmed"
       /\ task.msg.cmd = "delete-history"
       /\ \E ok \in BOOLEAN :
            IF ok
            THEN Step(t, [task EXCEPT !.pc = "delete_messages",
                             !.message_ids = UserMessageIds(channel_messages, task.msg.author)])
            ELSE Step(t, [task EXCEPT !.pc = "done", !.raised = "delete_user_convo"])
       /\ UNCHANGED <<thinkVars, storeVars, apiVars, invoked, ragVars>>

\* delete_user_convo: delete_many of the user's messages
DeleteMessages(t) ==
    LET task == tasks[t]
    IN /\ task.pc = "delete_messages"
       /\ \E ok \in BOOLEAN :
            IF ok
            THEN /\ channel_messages' = DeleteUserMessages(channel_messages, task.msg.author)
                 /\ Step(t, [task EXCEPT !.pc = "delete_responses"])
            ELSE /\ Step(t, [task EXCEPT !.pc = "done", !.raised = "delete_user_convo"])
                 /\ UNCHANGED channel_messages
       /\ UNCHANGED <<thinkVars, attachments, next_oid, user_preferences, apiVars, invoked, ragVars>>

\* delete_user_convo: one pass of the loop over message_ids
DeleteResponse(t) ==
    LET task == tasks[t]
    IN /\ task.pc = "delete_responses"
       /\ task.message_ids # <<>>
       /\ \E ok \in BOOLEAN :
            IF ok
            THEN /\ channel_messages' =
                       DeleteOneMessage(channel_messages, ClaudeId(Head(task.message_ids)))
                 /\ Step(t, [task EXCEPT !.message_ids = Tail(task.message_ids)])
            ELSE /\ Step(t, [task EXCEPT !.pc = "done", !.raised = "delete_user_convo"])
                 /\ UNCHANGED channel_messages
       /\ UNCHANGED <<thinkVars, attachments, next_oid, user_preferences, apiVars, invoked, ragVars>>

\* delete_user_convo: delete_many of the user's attachments, and the return
DeleteAttachments(t) ==
    LET task == tasks[t]
    IN /\ task.pc = "delete_responses"
       /\ task.message_ids = <<>>
       /\ \E ok \in BOOLEAN :
            IF ok
            THEN /\ attachments' = DeleteUserAttachments(attachments, task.msg.author)
                 /\ Step(t, [task EXCEPT !.pc = "delete_prefs"])
            ELSE /\ Step(t, [task EXCEPT !.pc = "done", !.raised = "delete_user_convo"])
                 /\ UNCHANGED attachments
       /\ UNCHANGED <<thinkVars, channel_messages, next_oid, user_preferences, apiVars, invoked, ragVars>>

\* delete_history: user_preferences.delete_one({"user_id": user_id}); ctx.send
DeletePreferences(t) ==
    LET task == tasks[t]
    IN /\ task.pc = "delete_prefs"
       /\ \E ok \in BOOLEAN :
            IF ok
            THEN /\ user_preferences' =
                       delete_user_preferences(user_preferences, task.msg.author)
                 /\ Step(t, Say([task EXCEPT !.pc = "done"], MSG_DELETE_DONE))
            ELSE /\ Step(t, [task EXCEPT !.pc = "done", !.raised = "delete_one"])
                 /\ UNCHANGED user_preferences
       /\ UNCHANGED <<thinkVars, channel_messages, attachments, next_oid, apiVars, invoked, ragVars>>

\* the chat surface delivers message m: on_message starts, and every
\* wait_for listener whose check accepts m returns
Arrive(m) ==
    /\ tasks' = Append([w \in 1..Len(tasks) |->
                           IF tasks[w].pc = "wait" /\ check(tasks[w], m)
                           THEN [tasks[w] EXCEPT !.pc = "confirmed",
                                                 !.confirmed_by = [id |-> Len(tasks) + 1] @@ m]
                           ELSE tasks[w]],
                       Returned(OnMessage(NewTask(Len(tasks) + 1, m))))
    /\ UNCHANGED <<thinkVars, storeVars, apiVars, invoked, ragVars>>

\* send_msg(msg, content) called with a content of the caller's making
CallSendMsg(m, content) ==
    /\ tasks' = Append(tasks, Returned(SendMsg([NewTask(Len(tasks) + 1, m) EXCEPT
                                                    !.content = content, !.given = content])))
    /\ UNCHANGED <<thinkVars, storeVars, apiVars, invoked, ragVars>>

(***************************************************************************)
(* Environments: the inbound messages the chat surface may deliver.        *)
(***************************************************************************)
ImageFile == [filename |-> "a.png", content_type |-> "image/png", bytes |-> <<0, 1>>]
TextFile == [filename |-> "n.txt", content_type |-> "text/plain", bytes |-> <<1>>]

Mention(u, c, text, files) == Inbound(u, c, TRUE, text, files, "none", 0)
Command(u, c, cmd, value) == Inbound(u, c, FALSE, <<">", cmd>>, <<>>, cmd, value)
Plain(u, c, text) == Inbound(u, c, FALSE, text, <<>>, "none", 0)

EffortValues == {0, 5, EFFORT_MAX + 1}
Replies == {<<"y">>, <<"Y">>, <<"n">>}

MessagesOf(users, channels, texts, fileLists, cmds, values, replies) ==
    UNION { { Mention(u, c, x, f) : x \in texts, f \in fileLists }
            \cup { Command(u, c, k, 0) : k \in cmds \ {"effort"} }
            \cup { Command(u, c, "effort", v) : v \in (IF "effort" \in cmds THEN values ELSE {}) }
            \cup { Plain(u, c, r) : r \in replies }
          : u \in users, c \in channels }

\* message ids of earlier turns: apart from the ids of the messages that arrive
SampleIdBase == 200

\* turn i of a sample log; with `split` the oldest pair belongs to channel c2
SampleTurn(i, split) ==
    LET k == (i + 1) \div 2
        user == IF k % 2 = 1 THEN "u1" ELSE "u2"
        channel == IF split /\ k = 1 THEN "c2" ELSE "c1"
    IN IF i % 2 = 1
       THEN MessageDoc(StrId(SampleIdBase + k), channel, user, UserName(user), FALSE,
                       <<TextBlock(<<"q", ToString(k)>>)>>)
       ELSE MessageDoc(ClaudeId(StrId(SampleIdBase + k)), channel, CLAUDE, UserName(CLAUDE), TRUE,
                       <<TextBlock(<<"a", ToString(k)>>)>>)

SampleLog(n, split) == [i \in 1..n |-> SampleTurn(i, split)]

DefaultStub == [frags |-> [i \in 1..StubLen |-> <<"A">>], final |-> <<"Z", "\n">>]

\* a state the bot reaches: one answered request of u1 in c1 with an
\* attachment, one of u2 in c2, and u1's preferences stored
UsedStore ==
    /\ channel_messages =
          << MessageDoc(StrId(91), "c1", "u1", UserName("u1"), FALSE,
                        <<TextBlock(<<"q">>), TextBlock(<<"text of ", "n.txt">>)>>),
             MessageDoc(ClaudeId(StrId(91)), "c1", CLAUDE, UserName(CLAUDE), TRUE,
                        <<TextBlock(<<"a">>)>>),
             MessageDoc(StrId(92), "c2", "u2", UserName("u2"), FALSE, <<TextBlock(<<"q">>)>>),
             MessageDoc(ClaudeId(StrId(92)), "c2", CLAUDE, UserName(CLAUDE), TRUE,
                        <<TextBlock(<<"a">>)>>) >>
    /\ attachments = store_attachment(NoAttachments, 1, "u1", "n.txt", <<1>>)
    /\ next_oid = 2
    /\ user_preferences = update_user_preferences(NoPreferences, "u1", ScalingOff)

(***************************************************************************)
(* SpecReq: one mention handled from arrival to the end, the controller    *)
(* run step by step.                                                       *)
(***************************************************************************)
ReqStubs == { [frags |-> [i \in 1..StubLen |-> f], final |-> z] :
                 f \in {<<"A">>, <<"C", " ", "D", "\n", " ">>}, z \in {<<"Z", "\n">>} }

InitReq ==
    /\ think = ThinkIdle
    /\ requests = <<>>
    /\ returned = <<>>
    /\ stub \in ReqStubs
    /\ channel_messages \in {<<>>, SampleLog(2, FALSE)}
    /\ attachments = NoAttachments
    /\ next_oid = 1
    /\ user_preferences \in
          {NoPreferences} \cup
          { update_user_preferences(NoPreferences, "u1",
                                    [scaling_mode |-> TRUE, reasoning_effort |-> e]) :
               e \in EFFORT_MIN..EFFORT_MAX }
    /\ InitApiIdle
    /\ InitBotIdle
    /\ InitRagIdle

ReqMessages == MessagesOf({"u1"}, {"c1"}, {<<>>, <<"hi">>}, {<<>>, <<ImageFile>>, <<TextFile>>},
                          {}, {}, {})

ArriveReq ==
    /\ tasks = <<>>
    /\ \E m \in ReqMessages : Arrive(m)

NextReq ==
    \/ ArriveReq
    \/ \E t \in 1..Len(tasks) : ProcessFile(t)
    \/ \E t \in 1..Len(tasks) : FilesRead(t)
    \/ \E t \in 1..Len(tasks) : ReqPrefs(t)
    \/ \E t \in 1..Len(tasks) : ReqLoad(t)
    \/ \E t \in 1..Len(tasks) : ReqStoreUser(t)
    \/ \E t \in 1..Len(tasks) : ReqPlain(t)
    \/ \E t \in 1..Len(tasks) : ReqThink(t)
    \/ ThinkIssue /\ UNCHANGED <<storeVars, apiVars, botVars, ragVars>>
    \/ ThinkContinue /\ UNCHANGED <<storeVars, apiVars, botVars, ragVars>>
    \/ ThinkClose /\ UNCHANGED <<storeVars, apiVars, botVars, ragVars>>
    \/ ThinkFinal /\ UNCHANGED <<storeVars, apiVars, botVars, ragVars>>
    \/ ThinkFail /\ UNCHANGED <<storeVars, apiVars, botVars, ragVars>>
    \/ \E t \in 1..Len(tasks) : ReqThought(t)
    \/ \E t \in 1..Len(tasks) : ReqStoreResponse(t)
    \/ \E t \in 1..Len(tasks) : SendChunks(t)
    \/ \E t \in 1..Len(tasks) : SendError(t)
    \/ \E t \in 1..Len(tasks) : DeleteThinking(t)

SpecReq == InitReq /\ [][NextReq]_vars

(***************************************************************************)
(* SpecLimits: one mention handled as in SpecReq, at the limits: a stored  *)
(* conversation of about HISTORY_LIMIT turns, and a completion of about    *)
(* CHUNK_SIZE characters (a text is a sequence of characters here).        *)
(***************************************************************************)
Line(n) == [i \in 1..n |-> "x"]

\* completions: one of exactly CHUNK_SIZE characters, one of one character
\* more, and a short line followed by a line of CHUNK_SIZE characters
LimitFinals == { Line(CHUNK_SIZE),
                 Line(CHUNK_SIZE + 1),
                 Line(CHUNK_SIZE \div 2) \o <<"\n">> \o Line(CHUNK_SIZE) }

InitLimits ==
    /\ think = ThinkIdle
    /\ requests = <<>>
    /\ returned = <<>>
    /\ stub \in { [frags |-> DefaultStub.frags, final |-> z] : z \in LimitFinals }
    /\ channel_messages \in
          { SampleLog(n, FALSE) : n \in (HISTORY_LIMIT - 1)..(HISTORY_LIMIT + 1) }
    /\ attachments = NoAttachments
    /\ next_oid = 1
    /\ user_preferences \in
          {NoPreferences,
           update_user_preferences(NoPreferences, "u1",
                                   [scaling_mode |-> TRUE, reasoning_effort |-> EFFORT_MIN])}
    /\ InitApiIdle
    /\ InitBotIdle
    /\ InitRagIdle

SpecLimits == InitLimits /\ [][NextReq]_vars

(***************************************************************************)
(* SpecResolve: send_msg called with contents that carry attachment        *)
(* references, one stored attachment (id 1) and one id that is not stored. *)
(***************************************************************************)
RefBlock(attachment_id) ==
    [type |-> "image", source |-> [type |-> "attachment_ref", attachment_id |-> attachment_id]]

RefContents ==
    { <<TextBlock(<<"hi">>)>>,
      <<TextBlock(<<"hi">>), RefBlock(1)>>,
      <<TextBlock(<<"hi">>), RefBlock(2)>>,
      <<TextBlock(<<"hi">>), RefBlock(1), RefBlock(2)>>,
      <<RefBlock(1)>> }

InitResolve ==
    /\ think = ThinkIdle
    /\ requests = <<>>
    /\ returned = <<>>
    /\ stub = DefaultStub
    /\ channel_messages \in {<<>>, SampleLog(2, FALSE)}
    /\ attachments = store_attachment(NoAttachments, 1, "u1", "a.png", <<0, 1>>)
    /\ next_oid = 2
    /\ user_preferences \in
          {NoPreferences,
           update_user_preferences(NoPreferences, "u1",
                                   [scaling_mode |-> TRUE, reasoning_effort |-> EFFORT_MIN])}
    /\ InitApiIdle
    /\ InitBotIdle
    /\ InitRagIdle

CallResolve ==
    /\ Len(tasks) < MaxResolveCalls
    /\ \E content \in RefContents : CallSendMsg(Mention("u1", "c1", <<"hi">>, <<>>), content)

NextResolve ==
    \/ CallResolve
    \/ \E t \in 1..Len(tasks) : ReqPrefs(t)
    \/ \E t \in 1..Len(tasks) : ReqLoad(t)
    \/ \E t \in 1..Len(tasks) : ReqResolve(t)
    \/ \E t \in 1..Len(tasks) : ReqStoreUser(t)
    \/ \E t \in 1..Len(tasks) : ReqPlain(t)
    \/ \E t \in 1..Len(tasks) : ReqScaled(t)
    \/ \E t \in 1..Len(tasks) : ReqStoreResponse(t)
    \/ \E t \in 1..Len(tasks) : SendChunks(t)
    \/ \E t \in 1..Len(tasks) : SendError(t)
    \/ \E t \in 1..Len(tasks) : DeleteThinking(t)

SpecResolve == InitResolve /\ [][NextResolve]_vars

(***************************************************************************)
(* SpecPrefs: one user's preference commands, deletion and mentions,       *)
(* interleaved.                                                            *)
(***************************************************************************)
InitPrefs ==
    /\ think = ThinkIdle
    /\ requests = <<>>
    /\ returned = <<>>
    /\ stub = DefaultStub
    /\ channel_messages = <<>>
    /\ attachments = NoAttachments
    /\ next_oid = 1
    /\ user_preferences \in {NoPreferences, update_user_preferences(NoPreferences, "u1", ScalingOn)}
    /\ InitApiIdle
    /\ InitBotIdle
    /\ InitRagIdle

PrefMessages == MessagesOf({"u1"}, {"c1"}, {<<"hi">>}, {<<>>},
                           {"scale", "effort", "status", "delete-history"},
                           EffortValues, {<<"y">>})

Mentions == Cardinality({t \in 1..Len(tasks) : tasks[t].msg.mention})

ArrivePrefs ==
    /\ Len(tasks) < MaxPrefMsgs
    /\ \E m \in PrefMessages :
          /\ m.mention => Mentions < MaxPrefMentions
          /\ Arrive(m)

NextPrefs ==
    \/ ArrivePrefs
    \/ \E t \in 1..Len(tasks) : ReqPrefs(t)
    \/ \E t \in 1..Len(tasks) : ReqLoad(t)
    \/ \E t \in 1..Len(tasks) : ReqStoreUser(t)
    \/ \E t \in 1..Len(tasks) : ReqPlain(t)
    \/ \E t \in 1..Len(tasks) : ReqScaled(t)
    \/ \E t \in 1..Len(tasks) : ReqStoreResponse(t)
    \/ \E t \in 1..Len(tasks) : SendChunks(t)
    \/ \E t \in 1..Len(tasks) : SendError(t)
    \/ \E t \in 1..Len(tasks) : DeleteThinking(t)
    \/ \E t \in 1..Len(tasks) : ScaleRead(t)
    \/ \E t \in 1..Len(tasks) : ScaleWrite(t)
    \/ \E t \in 1..Len(tasks) : EffortRead(t)
    \/ \E t \in 1..Len(tasks) : EffortWrite(t)
    \/ \E t \in 1..Len(tasks) : StatusRead(t)
    \/ \E t \in 1..Len(tasks) : ConfirmAsk(t)
    \/ \E t \in 1..Len(tasks) : ConfirmTimeout(t)
    \/ \E t \in 1..Len(tasks) : DeleteFind(t)
    \/ \E t \in 1..Len(tasks) : DeleteMessages(t)
    \/ \E t \in 1..Len(tasks) : DeleteResponse(t)
    \/ \E t \in 1..Len(tasks) : DeleteAttachments(t)
    \/ \E t \in 1..Len(tasks) : DeletePreferences(t)

SpecPrefs == InitPrefs /\ [][NextPrefs]_vars

(***************************************************************************)
(* SpecRace: one user's delete-history against that user's own mentions.   *)
(***************************************************************************)
InitRace ==
    /\ think = ThinkIdle
    /\ requests = <<>>
    /\ returned = <<>>
    /\ stub = DefaultStub
    /\ InitStoreEmpty
    /\ InitApiIdle
    /\ InitBotIdle
    /\ InitRagIdle

RaceMessages == MessagesOf({"u1"}, {"c1"}, {<<"hi">>}, {<<>>}, {"delete-history"}, {}, {<<"y">>})

ArriveRace ==
    /\ Len(tasks) < MaxRaceMsgs
    /\ \E m \in RaceMessages : Arrive(m)

NextRace ==
    \/ ArriveRace
    \/ \E t \in 1..Len(tasks) : ReqPrefs(t)
    \/ \E t \in 1..Len(tasks) : ReqLoad(t)
    \/ \E t \in 1..Len(tasks) : ReqStoreUser(t)
    \/ \E t \in 1..Len(tasks) : ReqPlain(t)
    \/ \E t \in 1..Len(tasks) : ReqStoreResponse(t)
    \/ \E t \in 1..Len(tasks) : SendChunks(t)
    \/ \E t \in 1..Len(tasks) : SendError(t)
    \/ \E t \in 1..Len(tasks) : DeleteThinking(t)
    \/ \E t \in 1..Len(tasks) : ConfirmAsk(t)
    \/ \E t \in 1..Len(tasks) : ConfirmTimeout(t)
    \/ \E t \in 1..Len(tasks) : DeleteFind(t)
    \/ \E t \in 1..Len(tasks) : DeleteMessages(t)
    \/ \E t \in 1..Len(tasks) : DeleteResponse(t)
    \/ \E t \in 1..Len(tasks) : DeleteAttachments(t)
    \/ \E t \in 1..Len(tasks) : DeletePreferences(t)

SpecRace == InitRace /\ [][NextRace]_vars

(***************************************************************************)
(* SpecShared: mentions of two users in one channel, handled at the same   *)
(* time, in plain and in scaling mode.                                     *)
(***************************************************************************)
InitShared ==
    /\ think = ThinkIdle
    /\ requests = <<>>
    /\ returned = <<>>
    /\ stub = DefaultStub
    /\ channel_messages \in {<<>>, SampleLog(2, FALSE)}
    /\ attachments = NoAttachments
    /\ next_oid = 1
    /\ user_preferences \in
          {NoPreferences,
           update_user_preferences(NoPreferences, "u2",
                                   [scaling_mode |-> TRUE, reasoning_effort |-> EFFORT_MIN])}
    /\ InitApiIdle
    /\ InitBotIdle
    /\ InitRagIdle

SharedMessages == MessagesOf(Users, {"c1"}, {<<"hi">>}, {<<>>}, {}, {}, {})

ArriveShared ==
    /\ Len(tasks) < MaxShared
    /\ \E m \in SharedMessages : Arrive(m)

NextShared ==
    \/ ArriveShared
    \/ \E t \in 1..Len(tasks) : ReqPrefs(t)
    \/ \E t \in 1..Len(tasks) : ReqLoad(t)
    \/ \E t \in 1..Len(tasks) : ReqStoreUser(t)
    \/ \E t \in 1..Len(tasks) : ReqPlain(t)
    \/ \E t \in 1..Len(tasks) : ReqScaled(t)
    \/ \E t \in 1..Len(tasks) : ReqStoreResponse(t)
    \/ \E t \in 1..Len(tasks) : SendChunks(t)
    \/ \E t \in 1..Len(tasks) : SendError(t)
    \/ \E t \in 1..Len(tasks) : DeleteThinking(t)

SpecShared == InitShared /\ [][NextShared]_vars

(***************************************************************************)
(* SpecSelf: SpecRace with the chat surface delivering to on_message the   *)
(* messages the bot itself has sent, whatever they read as: a mention of   *)
(* the bot, a command, a confirmation.                                     *)
(***************************************************************************)
SelfReadings == { Mention(CLAUDE, "c1", <<"hi">>, <<>>),
                  Command(CLAUDE, "c1", "delete-history", 0),
                  Plain(CLAUDE, "c1", <<"y">>) }

\* a message the bot has sent comes back as an inbound message of its own
ArriveSelf ==
    /\ Len(tasks) < MaxRaceMsgs
    /\ \E t \in 1..Len(tasks) : tasks[t].sent # <<>>
    /\ \E m \in SelfReadings : Arrive(m)

NextSelf ==
    \/ ArriveSelf
    \/ NextRace

SpecSelf == InitRace /\ [][NextSelf]_vars

(***************************************************************************)
(* Spec: the whole bot, two users in two channels, every kind of message.  *)
(* It starts from a store in use or from an empty one: with an attachment  *)
(* stored, no further attachment can be.                                   *)
(***************************************************************************)
Init ==
    /\ think = ThinkIdle
    /\ requests = <<>>
    /\ returned = <<>>
    /\ stub = DefaultStub
    /\ (UsedStore \/ InitStoreEmpty)
    /\ InitApiIdle
    /\ InitBotIdle
    /\ InitRagIdle

BotMessages == MessagesOf(Users, Channels, {<<"hi">>}, {<<>>, <<TextFile>>},
                          {"scale", "effort", "status", "clear-channel", "delete-history"},
                          {0, 2}, Replies)

ArriveAny ==
    /\ Len(tasks) < MaxInbound
    /\ \E m \in BotMessages : Arrive(m)

Next ==
    \/ ArriveAny
    \/ \E t \in 1..Len(tasks) : ProcessFile(t)
    \/ \E t \in 1..Len(tasks) : FilesRead(t)
    \/ \E t \in 1..Len(tasks) : ReqPrefs(t)
    \/ \E t \in 1..Len(tasks) : ReqLoad(t)
    \/ \E t \in 1..Len(tasks) : ReqStoreUser(t)
    \/ \E t \in 1..Len(tasks) : ReqPlain(t)
    \/ \E t \in 1..Len(tasks) : ReqScaled(t)
    \/ \E t \in 1..Len(tasks) : ReqStoreResponse(t)
    \/ \E t \in 1..Len(tasks) : SendChunks(t)
    \/ \E t \in 1..Len(tasks) : SendError(t)
    \/ \E t \in 1..Len(tasks) : DeleteThinking(t)
    \/ \E t \in 1..Len(tasks) : ScaleRead(t)
    \/ \E t \in 1..Len(tasks) : ScaleWrite(t)
    \/ \E t \in 1..Len(tasks) : EffortRead(t)
    \/ \E t \in 1..Len(tasks) : EffortWrite(t)
    \/ \E t \in 1..Len(tasks) : StatusRead(t)
    \/ \E t \in 1..Len(tasks) : ConfirmAsk(t)
    \/ \E t \in 1..Len(tasks) : ConfirmTimeout(t)
    \/ \E t \in 1..Len(tasks) : ClearDelete(t)
    \/ \E t \in 1..Len(tasks) : DeleteFind(t)
    \/ \E t \in 1..Len(tasks) : DeleteMessages(t)
    \/ \E t \in 1..Len(tasks) : DeleteResponse(t)
    \/ \E t \in 1..Len(tasks) : DeleteAttachments(t)
    \/ \E t \in 1..Len(tasks) : DeletePreferences(t)

Spec == Init /\ [][Next]_vars

(***************************************************************************)
(* SpecThink: one invocation of the controller on its own, for every round *)
(* budget the effort command can store (and 0, which it cannot).           *)
(***************************************************************************)
InitThink ==
    /\ think = ThinkIdle
    /\ requests = <<>>
    /\ returned = <<>>
    /\ stub \in Stubs
    /\ InitStoreEmpty
    /\ InitApiIdle
    /\ InitBotIdle
    /\ InitRagIdle

Invoke ==
    /\ \E R \in 0..EFFORT_MAX : ThinkStart(SampleMessages, R)
    /\ UNCHANGED <<requests, returned, stub>>

NextThink ==
    \/ Invoke /\ UNCHANGED <<storeVars, apiVars, botVars, ragVars>>
    \/ ThinkIssue /\ UNCHANGED <<storeVars, apiVars, botVars, ragVars>>
    \/ ThinkContinue /\ UNCHANGED <<storeVars, apiVars, botVars, ragVars>>
    \/ ThinkClose /\ UNCHANGED <<storeVars, apiVars, botVars, ragVars>>
    \/ ThinkFinal /\ UNCHANGED <<storeVars, apiVars, botVars, ragVars>>
    \/ ThinkFail /\ UNCHANGED <<storeVars, apiVars, botVars, ragVars>>

SpecThink == InitThink /\ [][NextThink]_vars

(***************************************************************************)
(* SpecStore: ConversationStorage driven by one caller, call after call,   *)
(* from a log of n turns (user turn k, then the response claude_k).        *)
(***************************************************************************)
Files == {ImageFile, TextFile}

\* the content lists given to update_convo: one block, and two blocks the
\* first of which has blanks and a line end around its text
Contents == { <<TextBlock(<<"new">>)>>,
              <<TextBlock(<<" ", "C", "\n">>), TextBlock(<<"second">>)>> }

InitStore ==
    /\ \E n \in 0..MaxStored, split \in BOOLEAN : channel_messages = SampleLog(n, split)
    /\ attachments = NoAttachments
    /\ next_oid = 1
    /\ user_preferences = NoPreferences
    /\ InitApiIdle
    /\ InitBotIdle
    /\ InitRagIdle
    /\ think = ThinkIdle
    /\ requests = <<>>
    /\ returned = <<>>
    /\ stub = DefaultStub

HasMessagesOf(msgs, key) ==
    \E i \in 1..Len(msgs) : msgs[i].channel_id = key \/ msgs[i].author.user_id = key

HasAttachmentsOf(atts, key) == \E i \in DOMAIN atts : atts[i].user_id = key

CallRecord(op, key, arg, ok, result) ==
    [op |-> op, key |-> key, arg |-> arg, ok |-> ok, result |-> result,
     had_messages |-> HasMessagesOf(channel_messages, key),
     had_attachments |-> HasAttachmentsOf(attachments, key)]

\* get_convo(channel_id); a failing read is logged and [] returned
CallGetConvo ==
    /\ ops < MaxOps
    /\ \E c \in Channels \cup Users, ok \in BOOLEAN :
          last' = CallRecord("get_convo", c, <<>>, ok,
                             IF ok THEN get_convo(channel_messages, c) ELSE <<>>)
    /\ ops' = ops + 1
    /\ UNCHANGED <<storeVars, thinkVars, botVars, ragVars>>

\* update_convo(channel_id, message); a failing insert raises
CallUpdateConvo ==
    /\ ops < MaxOps
    /\ \E c \in Channels, u \in Users, content \in Contents, ok \in BOOLEAN :
          LET message == [message_id |-> StrId(100 + ops),
                          author |-> [user_id |-> u, username |-> UserName(u), is_bot |-> FALSE],
                          content |-> content]
          IN /\ channel_messages' = IF ok THEN update_convo(channel_messages, c, message)
                                    ELSE channel_messages
             /\ last' = CallRecord("update_convo", c, <<message>>, ok, <<>>)
    /\ ops' = ops + 1
    /\ UNCHANGED <<attachments, next_oid, user_preferences, thinkVars, botVars, ragVars>>

\* store_attachment(user_id, filename, content) -> inserted_id; a failing insert raises
CallStoreAttachment ==
    /\ ops < MaxOps
    /\ \E u \in Users, f \in Files, outcome \in InsertOutcomes(attachments) :
          LET ok == outcome = "ok"
          IN /\ attachments' = IF ok
                                THEN store_attachment(attachments, next_oid, u, f.filename, f.bytes)
                                ELSE attachments
             /\ next_oid' = IF ok THEN next_oid + 1 ELSE next_oid
             /\ last' = CallRecord("store_attachment", u, <<f.filename, f.bytes, outcome>>,
                                   ok, IF ok THEN <<next_oid>> ELSE <<>>)
    /\ ops' = ops + 1
    /\ UNCHANGED <<channel_messages, user_preferences, thinkVars, botVars, ragVars>>

\* get_attachment(attachment_id); a failing read is logged and None returned
CallGetAttachment ==
    /\ ops < MaxOps
    /\ \E id \in 1..next_oid, ok \in BOOLEAN :
          last' = CallRecord("get_attachment", "", <<id>>, ok,
                             IF ok THEN get_attachment(attachments, id) ELSE NoAttachment)
    /\ ops' = ops + 1
    /\ UNCHANGED <<storeVars, thinkVars, botVars, ragVars>>

\* delete_channel_convo(channel_id); a failing delete_many raises
CallDeleteChannel ==
    /\ ops < MaxOps
    /\ \E c \in Channels, ok \in BOOLEAN :
          /\ channel_messages' = IF ok THEN delete_channel_convo(channel_messages, c)
                                 ELSE channel_messages
          /\ last' = CallRecord("delete_channel_convo", c, <<>>, ok, <<>>)
    /\ ops' = ops + 1
    /\ UNCHANGED <<attachments, next_oid, user_preferences, thinkVars, botVars, ragVars>>

\* delete_user_convo(user_id), its statements run in order up to the one
\* numbered failAt, which raises (0: none raises)
CallDeleteUser ==
    /\ ops < MaxOps
    /\ \E u \in Users, failAt \in 0..4 :
          LET ran(k) == failAt = 0 \/ k < failAt
              message_ids == UserMessageIds(channel_messages, u)
              m2 == IF ran(2) THEN DeleteUserMessages(channel_messages, u) ELSE channel_messages
              m3 == IF ran(3) THEN DeleteResponses(m2, message_ids) ELSE m2
          IN /\ channel_messages' = m3
             /\ attachments' = IF ran(4) THEN DeleteUserAttachments(attachments, u)
                                ELSE attachments
             /\ last' = CallRecord("delete_user_convo", u, <<>>, failAt = 0, <<>>)
    /\ ops' = ops + 1
    /\ UNCHANGED <<next_oid, user_preferences, thinkVars, botVars, ragVars>>

NextStore ==
    \/ CallGetConvo
    \/ CallUpdateConvo
    \/ CallStoreAttachment
    \/ CallGetAttachment
    \/ CallDeleteChannel
    \/ CallDeleteUser

SpecStore == InitStore /\ [][NextStore]_vars

\* the turns stored for a key, oldest first
Stored(key) == SelectSeq(channel_messages, LAMBDA d : d.channel_id = key)

\* the largest even number not above n
LargestEven(n) == n - (n % 2)

\* C6: the history get_convo loads for a key with n stored turns is the whole
\* stored sequence when n <= 20 (empty when the key has no turn), and its
\* largest even-length suffix no longer than 20 when n > 20, oldest first.
C6_Trim ==
    (last.op = "get_convo" /\ last.ok) =>
        LET stored == Stored(last.key)
            n == Len(stored)
            N == LargestEven(HISTORY_LIMIT)
        IN IF n > HISTORY_LIMIT
           THEN last.result = SubSeq(stored, n - N + 1, n)
           ELSE last.result = stored

\* 21 turns stored: the most recent 20 come back, the oldest is dropped
C6_Witness ==
    /\ last.op = "get_convo" /\ last.ok
    /\ Len(Stored(last.key)) = 21
    /\ Len(last.result) = 20
    /\ last.result[1] = Stored(last.key)[2]
    /\ last.result[20] = Stored(last.key)[21]

\* C7: when delete_channel_convo(key) or delete_user_convo(key) has completed,
\* loading the key gives the empty sequence, no turn of that author is left,
\* and get_attachment finds no attachment owned by the key.
C7_Deleted ==
    (last.op \in {"delete_channel_convo", "delete_user_convo"} /\ last.ok) =>
        /\ get_convo(channel_messages, last.key) = <<>>
        /\ \A i \in 1..Len(channel_messages) :
              channel_messages[i].author.user_id # last.key
        /\ \A id \in 1..next_oid :
              get_attachment(attachments, id) # NoAttachment =>
                 attachments[id].user_id # last.key

C7_Witness ==
    /\ last.op = "delete_user_convo" /\ last.ok
    /\ last.had_messages /\ last.had_attachments
    /\ Len(channel_messages) > 0

C7_WitnessChannel ==
    /\ last.op = "delete_channel_convo" /\ last.ok
    /\ last.had_messages
    /\ Len(channel_messages) > 0

\* the step-by-step controller and get_scaled_thinking agree (SpecThink)
ThinkAgrees ==
    think.pc = "done" =>
        \E failAt \in 0..(Len(requests)) :
            LET run == get_scaled_thinking(think.messages, think.max_iterations, stub, failAt)
            IN /\ run.requests = requests
               /\ run.result = think.result
               /\ run.failed = think.failed

(***************************************************************************)
(* Properties of the reasoning controller.                                 *)
(***************************************************************************)
\* the trailing assistant content of the i-th provider request
Prefill(i) == requests[i].messages[Len(requests[i].messages)].content[1].text

ThinkRunning == think.pc # "idle"
ThinkReturned == think.pc = "done" /\ ~think.failed
ThinkAwaiting == think.pc \in {"await_cont", "await_final"}

\* C1: with a round budget R in 1..20 and a provider that does not fail, the
\* controller issues R continuation requests, each with the stop boundary
\* "</think>", then one final request without a stop boundary, and nothing
\* else; a request is issued only when every earlier one has returned.
C1_RoundCount ==
    (ThinkRunning /\ ~think.failed /\ think.max_iterations \in EFFORT_MIN..EFFORT_MAX) =>
        /\ Len(requests) <= think.max_iterations + 1
        /\ \A i \in 1..Len(requests) :
              requests[i].stop = (IF i <= think.max_iterations THEN <<CLOSE_MARK>> ELSE <<>>)
        /\ Len(requests) = Len(returned) + (IF ThinkAwaiting THEN 1 ELSE 0)
        /\ (think.pc = "done" => Len(requests) = think.max_iterations + 1)

C1_Witness ==
    /\ ThinkReturned
    /\ think.max_iterations = EFFORT_MAX
    /\ Len(requests) = EFFORT_MAX + 1
    /\ requests[EFFORT_MAX].stop = <<CLOSE_MARK>>
    /\ requests[EFFORT_MAX + 1].stop = <<>>

\* open ++ t(f1) ++ sentinel ++ t(f2) ++ ... ++ sentinel ++ t(fn), for the
\* first n fragments of frs, t being applied to every fragment
RECURSIVE Joined(_, _, _, _)
Joined(open, frs, n, strip) ==
    IF n = 0 THEN open
    ELSE LET f == IF strip THEN rstrip(frs[n]) ELSE frs[n]
         IN Joined(open, frs, n - 1, strip) \o (IF n > 1 THEN <<WAIT_MARK>> ELSE <<>>) \o f

\* C2 as stated: the result is the open marker, the fragments as the provider
\* returned them, separated by the sentinel, the close marker and the final
\* text as returned, with nothing else inserted.
C2_AsStated ==
    (ThinkReturned /\ think.max_iterations >= 1) =>
        think.result = Joined(<<OPEN_MARK>>, returned, think.max_iterations, FALSE)
                          \o <<CLOSE_MARK>> \o returned[think.max_iterations + 1]

\* C2, amended: the result is "<think>Okay", then every fragment with its
\* trailing whitespace removed, "\nWait" before each fragment but the first,
\* then "</think>" and the final text with its trailing whitespace removed;
\* the buffer sent in round k is the part of that string built so far, and
\* holds no close marker before the final request.
C2_Concatenation ==
    (ThinkRunning /\ ~think.failed /\ think.max_iterations >= 1) =>
        /\ \A k \in 1..Len(requests) :
              k <= think.max_iterations =>
                 /\ Prefill(k) = Joined(THINK_PREFILL, returned, k - 1, TRUE)
                                     \o (IF k > 1 THEN <<WAIT_MARK>> ELSE <<>>)
                 /\ Count(Prefill(k), CLOSE_MARK) = 0
        /\ Len(requests) = think.max_iterations + 1 =>
              Prefill(Len(requests)) =
                 Joined(THINK_PREFILL, returned, think.max_iterations, TRUE) \o <<CLOSE_MARK>>
        /\ think.pc = "done" =>
              /\ think.result =
                    Joined(THINK_PREFILL, returned, think.max_iterations, TRUE)
                       \o <<CLOSE_MARK>> \o rstrip(returned[think.max_iterations + 1])
              /\ \A k \in 1..Len(requests) : IsPrefix(Prefill(k), think.result)

\* rounds = 3 with fragments "A", "B", "C..." and final "Z"
C2_Witness ==
    /\ ThinkReturned
    /\ think.max_iterations = 3
    /\ returned = << <<"A">>, <<"B">>, <<"C", " ", "D", "\n", " ">>, <<"Z", "\n">> >>
    /\ think.result = <<OPEN_MARK, "Okay", "A", WAIT_MARK, "B", WAIT_MARK,
                         "C", " ", "D", CLOSE_MARK, "Z">>

\* C3: whatever the rounds value and whatever the provider does, the returned
\* text begins with the open marker and holds exactly one close marker.
C3_Markers ==
    think.pc = "done" =>
        /\ think.result # <<>>
        /\ Head(think.result) = OPEN_MARK
        /\ Count(think.result, CLOSE_MARK) = 1

(***************************************************************************)
(* Properties of the handlers.                                             *)
(***************************************************************************)
Finished(t) == tasks[t].pc = "done"
AllFinished == \A t \in 1..Len(tasks) : Finished(t)
Stepped(t) == tasks'[t] # tasks[t]

HasTurn(message_id) ==
    \E i \in 1..Len(channel_messages) : channel_messages[i].message_id = message_id

InSeq(x, seq) == \E i \in 1..Len(seq) : seq[i] = x

\* C4: when a provider call of the controller fails, the invocation issues no
\* further request, its caller sees an error, and no text of the failed
\* invocation is persisted as a turn or sent to the user.
C4_AllOrNothing ==
    \A t \in 1..Len(tasks) :
        think.failed =>
            /\ Len(requests) = Len(returned) + 1
            /\ tasks[t].pc \notin {"store_resp", "send"}
            /\ ~HasTurn(ClaudeId(StrId(tasks[t].id)))
            /\ ~InSeq(THINK_ERROR, tasks[t].sent)

ValidEffort(e) == e \in EFFORT_MIN..EFFORT_MAX

EffortRejection(t) ==
    LET prefs == get_user_preferences(tasks[t].msg.author)
    IN IF ~PrefScaling(prefs) THEN MSG_NEED_SCALE
       ELSE IF tasks[t].msg.value < EFFORT_MIN THEN MSG_EFFORT_LOW
       ELSE MSG_EFFORT_HIGH

\* C5: a stored round budget is always an integer in 1..20, the controller is
\* always invoked with rounds in 1..20, and a step of an effort command whose
\* value is below 1 or above 20 leaves the stored preferences as they are and
\* answers with the rejection message.
C5_BudgetBounded ==
    /\ [](/\ \A u \in DOMAIN user_preferences :
               "reasoning_effort" \in DOMAIN user_preferences[u] =>
                   ValidEffort(user_preferences[u].reasoning_effort)
          /\ \A r \in invoked : ValidEffort(r))
    /\ [][\A t \in 1..Len(tasks) :
             (tasks[t].msg.cmd = "effort" /\ ~ValidEffort(tasks[t].msg.value) /\ Stepped(t)) =>
                 /\ user_preferences' = user_preferences
                 /\ tasks'[t].pc = "done"
                 /\ tasks'[t].raised = "" => tasks'[t].sent = <<EffortRejection(t)>>]_vars

\* effort 5 stored, effort 21 rejected, and the controller invoked with 5
C5_Witness ==
    /\ "u1" \in DOMAIN user_preferences
    /\ user_preferences["u1"] = [scaling_mode |-> TRUE, reasoning_effort |-> 5]
    /\ 5 \in invoked
    /\ \E t \in 1..Len(tasks) :
          /\ tasks[t].msg.cmd = "effort"
          /\ tasks[t].msg.value = EFFORT_MAX + 1
          /\ Finished(t)
          /\ tasks[t].sent = <<MSG_EFFORT_HIGH>>

IsResponseId(message_id) == message_id # <<>> /\ Head(message_id) = "claude_"

Orphans ==
    {i \in 1..Len(channel_messages) :
        /\ IsResponseId(channel_messages[i].message_id)
        /\ ~HasTurn(Tail(channel_messages[i].message_id))}

\* C8: once a delete-history and the user's own requests have all finished
\* (none of them stopped by a failure), the log holds no response turn
\* claude_<id> whose user turn <id> is gone.
C8_NoOrphanedResponse ==
    (AllFinished /\ \A t \in 1..Len(tasks) : tasks[t].raised = "") => Orphans = {}

Destructive(t) == tasks[t].msg.cmd \in {"clear-channel", "delete-history"}
Deleting(t) ==
    /\ Destructive(t)
    /\ tasks[t].pc \in {"confirmed", "delete_messages", "delete_responses", "delete_prefs"}

StoreShrinks ==
    \/ \E i \in 1..Len(channel_messages) : ~InSeq(channel_messages[i], channel_messages')
    \/ ~(DOMAIN attachments \subseteq DOMAIN attachments')
    \/ ~(DOMAIN user_preferences \subseteq DOMAIN user_preferences')

\* C9 as stated: a destructive command deletes only after a message whose
\* content is literally "y", from its author in its channel.
C9_AsStated ==
    \A t \in 1..Len(tasks) :
        Deleting(t) =>
            /\ tasks[t].confirmed_by # NoMessage
            /\ tasks[t].confirmed_by.text = <<"y">>
            /\ tasks[t].confirmed_by.author = tasks[t].msg.author
            /\ tasks[t].confirmed_by.channel = tasks[t].msg.channel

\* C9, amended: a destructive command deletes only after a message whose
\* content, lower-cased, is "y", sent by its author in its channel while the
\* command waits; data is removed only by the steps of a command so
\* confirmed; a command that timed out is over, and the step in which the
\* timeout fires changes no message, attachment or preference.
C9_Confirmed ==
    /\ [](\A t \in 1..Len(tasks) :
            /\ Deleting(t) =>
                 /\ tasks[t].confirmed_by # NoMessage
                 /\ lower(tasks[t].confirmed_by.text) = <<"y">>
                 /\ tasks[t].confirmed_by.author = tasks[t].msg.author
                 /\ tasks[t].confirmed_by.channel = tasks[t].msg.channel
                 /\ tasks[t].confirmed_by.id > tasks[t].id
                 /\ ~tasks[t].timed_out
            /\ tasks[t].timed_out => (Finished(t) /\ tasks[t].confirmed_by = NoMessage))
    /\ [][/\ StoreShrinks => \E t \in 1..Len(tasks) : Deleting(t) /\ Stepped(t)
          /\ \A t \in 1..Len(tasks) :
                (tasks'[t].timed_out /\ ~tasks[t].timed_out) => UNCHANGED storeVars]_vars

\* u1's delete-history, confirmed with "Y", has removed u1's data
C9_Witness ==
    \E t \in 1..Len(tasks) :
        /\ tasks[t].msg.cmd = "delete-history"
        /\ tasks[t].msg.author = "u1"
        /\ Finished(t)
        /\ tasks[t].confirmed_by # NoMessage
        /\ tasks[t].confirmed_by.text = <<"Y">>
        /\ tasks[t].sent = <<MSG_DELETE_ASK, MSG_DELETE_DONE>>
        /\ "u1" \notin DOMAIN user_preferences
        /\ attachments = NoAttachments
        /\ Len(channel_messages) = 2

ReplyTexts(t) == {tasks[t].sent[i] : i \in 1..Len(tasks[t].sent)} \ {MSG_READING, MSG_THINKING}

\* C11: a request whose new content holds an attachment reference to an
\* attachment that does not exist issues no completion request, persists
\* neither its user turn nor an assistant turn, and ends having raised into
\* send_msg, the user being sent the failure message and no other reply.
C11_MissingTargetFails ==
    \A t \in 1..Len(tasks) :
        ResolveRaises(tasks[t].given, attachments) =>
            /\ tasks[t].asked = <<>>
            /\ ~HasTurn(StrId(tasks[t].id))
            /\ ~HasTurn(ClaudeId(StrId(tasks[t].id)))
            /\ tasks[t].pc \notin {"store_user", "provider", "store_resp", "send"}
            /\ Finished(t) => (tasks[t].raised # "" /\ ReplyTexts(t) = {SEND_ERROR})

\* the reference to the missing attachment 2 was reached (the one to
\* attachment 1 before it resolved) and the request has ended
C11_Witness ==
    \E t \in 1..Len(tasks) :
        /\ tasks[t].given = <<TextBlock(<<"hi">>), RefBlock(1), RefBlock(2)>>
        /\ tasks[t].raised = "TypeError"
        /\ Finished(t)
        /\ tasks[t].sent = <<MSG_THINKING, SEND_ERROR>>

\* C12: the user turn a request persists carries every attachment reference
\* of its new content as a reference, never the bytes it resolves to.
C12_ReferenceKept ==
    \A t \in 1..Len(tasks) :
        \A i \in 1..Len(channel_messages) :
            channel_messages[i].message_id = StrId(tasks[t].id) =>
                /\ Len(channel_messages[i].content) = Len(tasks[t].given)
                /\ \A k \in 1..Len(tasks[t].given) :
                      IsAttachmentRef(tasks[t].given[k]) =>
                          channel_messages[i].content[k] = tasks[t].given[k]

(***************************************************************************)
(* rag.py: RagProcessor.  Paths are sequences of components; the papers    *)
(* directory is the default one.  paperqa's Docs and paperscraper are the  *)
(* environment: every call into them either raises or returns one of the   *)
(* values listed.                                                          *)
(***************************************************************************)
PAPERS_DIR == <<"papers">>
SENTINEL == "INSUFFICIENT_CONTEXT"
UNABLE_TEXT == <<"Unable to find sufficient information to answer the query in available papers.">>

\* str.strip()
strip(s) == Reverse(rstrip(Reverse(rstrip(s))))

\* Path / filename
Join(dir, filename) == dir \o filename

Parent(path) == SubSeq(path, 1, Len(path) - 1)

\* Path(p).relative_to(base): raises ValueError unless base is a prefix of p
RelativeRaises(path, base) == ~IsPrefix(base, path)
RelativeTo(path, base) == SubSeq(path, Len(base) + 1, Len(path))

PdfNames == {"a.pdf", "b.pdf"}

\* papers_dir.glob("*.pdf"): the pdf disk directly in the directory
GlobPdf(fs, dir) ==
    {p \in fs : Len(p) = Len(dir) + 1 /\ IsPrefix(dir, p) /\ p[Len(p)] \in PdfNames}

NoMetadata == [k \in {} |-> <<>>]

\* dict.get(key, '')
MetaGet(metadata, key) == IF key \in DOMAIN metadata THEN metadata[key] ELSE <<>>

Row(file_location, metadata) ==
    [file_location |-> file_location, doi |-> MetaGet(metadata, "doi"),
     title |-> MetaGet(metadata, "title")]

\* bug variant: a row is appended whether or not the file has one
UpdateRows_Append(rows, file_location, metadata) ==
    Append(rows, Row(file_location, metadata))

\* the loop over entries: the first row of the file is rewritten, else one is appended
UpdateRows(rows, file_location, metadata) ==
    IF \E i \in 1..Len(rows) : rows[i].file_location = file_location
    THEN LET i == CHOOSE k \in 1..Len(rows) :
                     /\ rows[k].file_location = file_location
                     /\ \A l \in 1..(k - 1) : rows[l].file_location # file_location
         IN [rows EXCEPT ![i] = Row(file_location, metadata)]
    ELSE Append(rows, Row(file_location, metadata))

\* update_manifest: every exception is caught and printed.  The file is
\* created with its header first; relative_to raises after that.
update_manifest(man, filename, metadata, io_ok) ==
    IF ~io_ok THEN man
    ELSE IF RelativeRaises(filename, PAPERS_DIR)
    THEN [man EXCEPT !.exists = TRUE]
    ELSE [exists |-> TRUE,
          rows |-> UpdateRows(man.rows, RelativeTo(filename, PAPERS_DIR), metadata)]

\* what temp_docs.docs[-1].docname and the metadata client give for a file
TitleOf(filename) == <<"title of ", filename[Len(filename)]>>
Fetched(title) == [doi |-> <<"doi of ">> \o title, title |-> title]

NoAnswer == [text |-> <<>>, evidence |-> {}]

\* answer.formatted_answer of a query over an index
Formatted(query, index) == [text |-> <<"answer to ", query>>, evidence |-> index]

Unable == [text |-> UNABLE_TEXT, evidence |-> {}]

\* answer.answer as the answering model may give it
ModelAnswers == {<<SENTINEL>>, <<" ", SENTINEL, "\n">>, <<"answer">>}

NewJob(kind, arg) ==
    [kind |-> kind,             \* "add" or "query"
     arg |-> arg,               \* filename, or query
     pc |-> "start",
     pending |-> {},            \* the paths a loop has still to go through
     local |-> "none",          \* local_rag: empty, insufficient, failed, answer
     external |-> "none",       \* search_rag: insufficient, failed, answer
     found |-> {},              \* papers: what the external search returned
     search_docs |-> {},        \* the index of this search_rag call
     events |-> <<>>,           \* reload / local_query / search / search_query, in order
     title |-> <<>>,
     metadata |-> NoMetadata,
     title_failed |-> FALSE,
     success |-> "none",        \* add_paper's return value: yes, no
     answer |-> NoAnswer]       \* process_query's return value

Move(j, job) == jobs' = [jobs EXCEPT ![j] = job]
Event(job, e) == [job EXCEPT !.events = Append(job.events, e)]

\* process_query after local_rag returned None: search_rag to its first await
ToSearch(job, outcome) == Event([job EXCEPT !.local = outcome, !.pc = "search"], "search")

\* bug variant: an empty local corpus ends the query with the fixed text
AfterReload_NoSearch(job, index) ==
    IF index = {}
    THEN Event([job EXCEPT !.local = "empty", !.pc = "done", !.answer = Unable], "reload")
    ELSE Event([job EXCEPT !.pc = "local_query"], "reload")

\* local_rag after the reload loop: if not self.docs.docs: return None
AfterReload(job, index) ==
    IF index = {}
    THEN ToSearch(Event(job, "reload"), "empty")
    ELSE Event([job EXCEPT !.pc = "local_query"], "reload")

\* process_query -> local_rag, to its first await
QueryCall(query) ==
    LET job == NewJob("query", query)
        pdfs == GlobPdf(disk, PAPERS_DIR)
    IN /\ jobs' = Append(jobs,
                         IF docs # {} THEN [job EXCEPT !.pc = "local_query"]
                         ELSE IF pdfs = {} THEN AfterReload(job, docs)
                         ELSE [job EXCEPT !.pc = "reload", !.pending = pdfs])
       /\ UNCHANGED <<disk, manifest, docs>>

\* await self.docs.aadd(str(pdf)) for the next pdf of the directory; a
\* failure is printed and the loop goes on
QueryReload(j) ==
    LET job == jobs[j]
    IN /\ job.kind = "query" /\ job.pc = "reload"
       /\ \E pdf \in job.pending, ok \in BOOLEAN :
            LET index == IF ok THEN docs \cup {pdf} ELSE docs
                rest == job.pending \ {pdf}
            IN /\ docs' = index
               /\ Move(j, IF rest = {} THEN AfterReload([job EXCEPT !.pending = {}], index)
                          ELSE [job EXCEPT !.pending = rest])
       /\ UNCHANGED <<disk, manifest>>

\* answer = await self.docs.aquery(query); sentinel -> None; exception -> None
QueryLocal(j) ==
    LET job == Event(jobs[j], "local_query")
    IN /\ jobs[j].kind = "query" /\ jobs[j].pc = "local_query"
       /\ \/ Move(j, ToSearch(job, "failed"))
          \/ \E a \in ModelAnswers :
                IF strip(a) = <<SENTINEL>>
                THEN Move(j, ToSearch(job, "insufficient"))
                ELSE Move(j, [job EXCEPT !.local = "answer", !.pc = "done",
                                         !.answer = Formatted(job.arg, docs)])
       /\ UNCHANGED <<disk, manifest, docs>>

\* the papers paperscraper may return for a query
External(query) == {<<"downloads", query, "x.pdf">>}

SearchFailed(job) == [job EXCEPT !.external = "failed", !.pc = "done", !.answer = Unable]

\* papers = await paperscraper.a_search_papers(keyword_search); search_docs = Docs()
QuerySearch(j) ==
    LET job == jobs[j]
    IN /\ job.kind = "query" /\ job.pc = "search"
       /\ \/ Move(j, SearchFailed(job))
          \/ \E papers \in SUBSET External(job.arg) :
                Move(j, [job EXCEPT !.found = papers, !.pending = papers,
                                    !.pc = IF papers = {} THEN "search_query"
                                           ELSE "search_add"])
       /\ UNCHANGED <<disk, manifest, docs>>

\* bug variant: the papers found are added to the processor's own index
QuerySearchAdd_Shared(j) ==
    LET job == jobs[j]
    IN /\ job.kind = "query" /\ job.pc = "search_add"
       /\ \E path \in job.pending :
            LET rest == job.pending \ {path}
                next == IF rest = {} THEN "search_query" ELSE "search_add"
            IN \/ /\ Move(j, [job EXCEPT !.pending = rest, !.pc = next,
                                         !.search_docs = job.search_docs \cup {path}])
                  /\ docs' = docs \cup {path}
               \/ /\ Move(j, [job EXCEPT !.pending = rest, !.pc = next])
                  /\ UNCHANGED docs
               \/ /\ Move(j, SearchFailed([job EXCEPT !.pending = {}]))
                  /\ UNCHANGED docs
       /\ UNCHANGED <<disk, manifest>>

\* metadata = await self.get_paper_metadata(...); await search_docs.aadd(path, ...):
\* added, or ValueError (skipped), or another exception (search_rag returns None)
QuerySearchAdd(j) ==
    LET job == jobs[j]
    IN /\ job.kind = "query" /\ job.pc = "search_add"
       /\ \E path \in job.pending :
            LET rest == job.pending \ {path}
                next == IF rest = {} THEN "search_query" ELSE "search_add"
            IN \/ Move(j, [job EXCEPT !.pending = rest, !.pc = next,
                                      !.search_docs = job.search_docs \cup {path}])
               \/ Move(j, [job EXCEPT !.pending = rest, !.pc = next])
               \/ Move(j, SearchFailed([job EXCEPT !.pending = {}]))
       /\ UNCHANGED <<disk, manifest, docs>>

\* answer = await search_docs.aquery(query); then process_query's last lines
QuerySearchQuery(j) ==
    LET job == Event(jobs[j], "search_query")
    IN /\ jobs[j].kind = "query" /\ jobs[j].pc = "search_query"
       /\ \/ Move(j, SearchFailed(job))
          \/ \E a \in ModelAnswers :
                IF strip(a) = <<SENTINEL>>
                THEN Move(j, [job EXCEPT !.external = "insufficient", !.pc = "done",
                                         !.answer = Unable])
                ELSE Move(j, [job EXCEPT !.external = "answer", !.pc = "done",
                                         !.answer = Formatted(job.arg, job.search_docs)])
       /\ UNCHANGED <<disk, manifest, docs>>

\* add_paper: open(pdf_path, 'wb').write(file_bytes), to the first await
AddCall(filename) ==
    LET job == NewJob("add", filename)
        pdf_path == Join(PAPERS_DIR, filename)
    IN IF Parent(pdf_path) \in disk
       THEN /\ disk' = disk \cup {pdf_path}
            /\ jobs' = Append(jobs, [job EXCEPT !.pc = "title"])
            /\ UNCHANGED <<manifest, docs>>
       ELSE /\ jobs' = Append(jobs, [job EXCEPT !.pc = "done", !.success = "no"])
            /\ UNCHANGED <<disk, manifest, docs>>

\* paper_title = await self.extract_paper_title(...): None when the temporary
\* index cannot read the file; if not paper_title: return False
AddTitle(j) ==
    LET job == jobs[j]
    IN /\ job.kind = "add" /\ job.pc = "title"
       /\ \E ok \in BOOLEAN :
            IF ok
            THEN Move(j, [job EXCEPT !.title = TitleOf(job.arg), !.pc = "metadata"])
            ELSE Move(j, [job EXCEPT !.title_failed = TRUE, !.pc = "done", !.success = "no"])
       /\ UNCHANGED <<disk, manifest, docs>>

\* metadata = await self.get_paper_metadata(paper_title) ({} on a failure);
\* await self.update_manifest(filename, metadata)
AddManifest(j) ==
    LET job == jobs[j]
    IN /\ job.kind = "add" /\ job.pc = "metadata"
       /\ \E metadata \in {Fetched(job.title), NoMetadata}, io_ok \in BOOLEAN :
            /\ manifest' = update_manifest(manifest, job.arg, metadata, io_ok)
            /\ Move(j, [job EXCEPT !.metadata = metadata, !.pc = "index"])
       /\ UNCHANGED <<disk, docs>>

\* await self.docs.aadd(str(pdf_path)); return True; any exception -> False
AddIndex(j) ==
    LET job == jobs[j]
    IN /\ job.kind = "add" /\ job.pc = "index"
       /\ \E ok \in BOOLEAN :
            IF ok
            THEN /\ docs' = docs \cup {Join(PAPERS_DIR, job.arg)}
                 /\ Move(j, [job EXCEPT !.pc = "done", !.success = "yes"])
            ELSE /\ Move(j, [job EXCEPT !.pc = "done", !.success = "no"])
                 /\ UNCHANGED docs
       /\ UNCHANGED <<disk, manifest>>

(***************************************************************************)
(* SpecRag: add_paper and process_query calls, interleaved at their awaits.*)
(***************************************************************************)
Filenames == {<<"a.pdf">>, <<"papers", "a.pdf">>, <<"papers", "b.pdf">>}
Queries == {"q1", "q2"}

\* RagProcessor.__init__: papers_dir.mkdir(exist_ok=True); self.docs = Docs().
\* The directory may hold a subdirectory.
InitRag ==
    /\ disk \in {{PAPERS_DIR}, {PAPERS_DIR, Join(PAPERS_DIR, <<"papers">>)}}
    /\ manifest = [exists |-> FALSE, rows |-> <<>>]
    /\ docs = {}
    /\ jobs = <<>>
    /\ think = ThinkIdle
    /\ requests = <<>>
    /\ returned = <<>>
    /\ stub = DefaultStub
    /\ InitStoreEmpty
    /\ InitApiIdle
    /\ tasks = <<>>
    /\ invoked = {}

QueryCount == Cardinality({j \in 1..Len(jobs) : jobs[j].kind = "query"})

CallAddPaper ==
    /\ Len(jobs) < MaxRagJobs
    /\ \E filename \in Filenames : AddCall(filename)
    /\ UNCHANGED <<thinkVars, storeVars, apiVars, botVars>>

CallProcessQuery ==
    /\ Len(jobs) < MaxRagJobs
    /\ QueryCount < MaxRagQueries
    /\ \E query \in Queries : QueryCall(query)
    /\ UNCHANGED <<thinkVars, storeVars, apiVars, botVars>>

NextRag ==
    \/ CallAddPaper
    \/ CallProcessQuery
    \/ \E j \in 1..Len(jobs) : AddTitle(j) /\ UNCHANGED <<thinkVars, storeVars, apiVars, botVars>>
    \/ \E j \in 1..Len(jobs) : AddManifest(j) /\ UNCHANGED <<thinkVars, storeVars, apiVars, botVars>>
    \/ \E j \in 1..Len(jobs) : AddIndex(j) /\ UNCHANGED <<thinkVars, storeVars, apiVars, botVars>>
    \/ \E j \in 1..Len(jobs) : QueryReload(j) /\ UNCHANGED <<thinkVars, storeVars, apiVars, botVars>>
    \/ \E j \in 1..Len(jobs) : QueryLocal(j) /\ UNCHANGED <<thinkVars, storeVars, apiVars, botVars>>
    \/ \E j \in 1..Len(jobs) : QuerySearch(j) /\ UNCHANGED <<thinkVars, storeVars, apiVars, botVars>>
    \/ \E j \in 1..Len(jobs) : QuerySearchAdd(j) /\ UNCHANGED <<thinkVars, storeVars, apiVars, botVars>>
    \/ \E j \in 1..Len(jobs) : QuerySearchQuery(j) /\ UNCHANGED <<thinkVars, storeVars, apiVars, botVars>>

SpecRag == InitRag /\ [][NextRag]_vars

(***************************************************************************)
(* Properties of the paper index.                                          *)
(***************************************************************************)
IsQuery(j) == jobs[j].kind = "query"
IsAdd(j) == jobs[j].kind = "add"
JobDone(j) == jobs[j].pc = "done"
Searched(j) == InSeq("search", jobs[j].events)

Position(e, events) == CHOOSE i \in 1..Len(events) : events[i] = e /\ \A k \in 1..(i - 1) : events[k] # e

\* C13: search_rag is attempted only after local answering gave the
\* insufficient-evidence sentinel or found the local corpus empty after the
\* reload; never after a real local answer, nor after any other local outcome.
C13_SearchOnlyWhenInsufficient ==
    \A j \in 1..Len(jobs) :
        (IsQuery(j) /\ Searched(j)) => jobs[j].local \in {"insufficient", "empty"}

C15_FixedText ==
    \A j \in 1..Len(jobs) :
        (/\ IsQuery(j) /\ JobDone(j) /\ Searched(j)
         /\ jobs[j].external = "insufficient" \/ jobs[j].found = {}) =>
            jobs[j].answer = Unable

\* the path of an added document, relative to the papers directory
DocLocation(j) == RelativeTo(Join(PAPERS_DIR, jobs[j].arg), PAPERS_DIR)

HasRow(file_location) ==
    \E i \in 1..Len(manifest.rows) : manifest.rows[i].file_location = file_location

\* C16: when add_paper has returned success the manifest holds a row keyed
\* by the document's path relative to the papers directory, with the doi and
\* title fetched for it.
C16_ManifestRow ==
    \A j \in 1..Len(jobs) :
        (IsAdd(j) /\ jobs[j].success = "yes") =>
            \E i \in 1..Len(manifest.rows) :
                /\ manifest.rows[i].file_location = DocLocation(j)
                /\ \E k \in 1..Len(jobs) :
                      /\ IsAdd(k) /\ jobs[k].arg = jobs[j].arg
                      /\ manifest.rows[i] = Row(DocLocation(j), jobs[k].metadata)

RowUpdated(rows, after) ==
    /\ Len(after) = Len(rows)
    /\ \E i \in 1..Len(rows) :
          /\ after[i].file_location = rows[i].file_location
          /\ \A k \in 1..Len(rows) : k # i => after[k] = rows[k]

RowAdded(rows, after) ==
    /\ Len(after) = Len(rows) + 1
    /\ SubSeq(after, 1, Len(rows)) = rows
    /\ \A i \in 1..Len(rows) : rows[i].file_location # after[Len(after)].file_location

\* C17: the manifest holds at most one row per file location, and a step
\* that changes it either rewrites the one row of a file in place (same
\* number of rows, the others untouched) or appends a row for a file that
\* had none.
C17_IdempotentManifest ==
    /\ [](\A i, k \in 1..Len(manifest.rows) :
            manifest.rows[i].file_location = manifest.rows[k].file_location => i = k)
    /\ [][\/ manifest.rows' = manifest.rows
          \/ RowUpdated(manifest.rows, manifest.rows')
          \/ RowAdded(manifest.rows, manifest.rows')]_vars

\* a.pdf was added twice, with metadata and then without: one row for it,
\* now blank, after the row of b.pdf
C17_Witness ==
    /\ manifest.rows = <<Row(<<"b.pdf">>, Fetched(TitleOf(<<"b.pdf">>))),
                         Row(<<"a.pdf">>, NoMetadata)>>
    /\ \E j, k \in 1..Len(jobs) :
          /\ j < k
          /\ IsAdd(j) /\ IsAdd(k)
          /\ jobs[j].arg = <<"papers", "a.pdf">> /\ jobs[k].arg = <<"papers", "a.pdf">>
          /\ jobs[j].metadata = Fetched(TitleOf(<<"a.pdf">>))
          /\ jobs[k].metadata = NoMetadata
          /\ jobs[j].pc \in {"index", "done"} /\ jobs[k].pc \in {"index", "done"}

\* C18: after an add_paper whose title extraction failed (and no other
\* add_paper of the same file), the file is in the papers directory, the
\* manifest has no row for it and the permanent index does not hold it.
C18_NotIndexed ==
    \A j \in 1..Len(jobs) :
        (/\ IsAdd(j) /\ jobs[j].title_failed
         /\ \A k \in 1..Len(jobs) : (k # j /\ IsAdd(k)) => jobs[k].arg # jobs[j].arg) =>
            /\ Join(PAPERS_DIR, jobs[j].arg) \in disk
            /\ jobs[j].success = "no"
            /\ ~HasRow(DocLocation(j))
            /\ Join(PAPERS_DIR, jobs[j].arg) \notin docs

InSearch(j) == IsQuery(j) /\ jobs[j].pc \in {"search", "search_add", "search_query"}

LocalPaths == {Join(PAPERS_DIR, f) : f \in Filenames}

\* C19: the permanent index holds only documents of the papers directory;
\* a query's transient index holds only papers its own search returned, and
\* answers draw on one index or the other; a step of an external search
\* changes neither the permanent index, nor the manifest, nor the
\* directory, nor any other run.
C19_IndexesApart ==
    /\ [](/\ docs \subseteq LocalPaths
          /\ \A j \in 1..Len(jobs) :
                /\ jobs[j].search_docs \subseteq jobs[j].found
                /\ IsQuery(j) => jobs[j].found \subseteq External(jobs[j].arg)
                /\ jobs[j].local = "answer" => jobs[j].answer.evidence \subseteq LocalPaths
                /\ jobs[j].external = "answer" => jobs[j].answer.evidence = jobs[j].search_docs)
    /\ [][\A j \in 1..Len(jobs) :
             (InSearch(j) /\ jobs'[j] # jobs[j]) =>
                 /\ UNCHANGED <<docs, manifest, disk>>
                 /\ \A k \in 1..Len(jobs) : k # j => jobs'[k] = jobs[k]]_vars

\* two queries answered from their own searches while the permanent index
\* holds an added document
C19_Witness ==
    /\ docs = {Join(PAPERS_DIR, <<"a.pdf">>)}
    /\ \E j, k \in 1..Len(jobs) :
          /\ IsQuery(j) /\ IsQuery(k) /\ jobs[j].arg # jobs[k].arg
          /\ JobDone(j) /\ JobDone(k)
          /\ jobs[j].external = "answer" /\ jobs[k].external = "answer"
          /\ jobs[j].search_docs = External(jobs[j].arg)
          /\ jobs[k].search_docs = External(jobs[k].arg)

\* C20: a handler run in which a storage or provider call failed ends with
\* the failure message sent to the user and no other reply text.
C20_SingleFailureMessage ==
    \A t \in 1..Len(tasks) :
        (Finished(t) /\ (tasks[t].raised # "" \/ think.failed)) =>
            ReplyTexts(t) = {SEND_ERROR}

\* C21: every provisional indicator the bot posts while handling an inbound
\* message ("reading your attachments", "thinking") is eventually removed,
\* whether the handling succeeds or fails: once the handling of a message has
\* ended, no indicator it posted is still shown.
C21_IndicatorsRemoved ==
    \A t \in 1..Len(tasks) :
        Finished(t) =>
            /\ tasks[t].reading_msg # "shown"
            /\ tasks[t].thinking_msg # "shown"

\* C22: a turn appended with update_convo and loaded at once with get_convo
\* comes back as the last turn of the window, with every block's text
\* unchanged, the blocks in their order, and the author's identity kept.
C22_TextRoundTrip ==
    (last.op = "update_convo" /\ last.ok) =>
        LET message == last.arg[1]
            loaded == get_convo(channel_messages, last.key)
        IN /\ loaded # <<>>
           /\ loaded[Len(loaded)].message_id = message.message_id
           /\ loaded[Len(loaded)].content = message.content
           /\ loaded[Len(loaded)].author = message.author

\* a two-block turn, its first text with blanks and a line end, appended to
\* a conversation that get_convo trims
C22_Witness ==
    /\ last.op = "update_convo" /\ last.ok
    /\ Len(last.arg[1].content) = 2
    /\ last.arg[1].content[1].text = <<" ", "C", "\n">>
    /\ Len(Stored(last.key)) > HISTORY_LIMIT

\* C23: every call of store_attachment that reaches the server succeeds with
\* a handle no earlier call returned, and get_attachment(handle) returns the
\* stored filename and bytes; no step alters a stored attachment, and one is
\* removed only by delete_user_convo of its owner.
C23_AttachmentsKept ==
    /\ [](/\ \A id \in DOMAIN attachments : id < next_oid
          /\ (last.op = "store_attachment" /\ last.arg[3] # "ConnectionFailure") =>
                /\ last.ok
                /\ get_attachment(attachments, last.result[1]) = <<last.arg[1], last.arg[2]>>)
    /\ [][\A id \in DOMAIN attachments :
             IF id \in DOMAIN attachments'
             THEN attachments'[id] = attachments[id]
             ELSE /\ last'.op = "delete_user_convo"
                  /\ attachments[id].user_id = last'.key]_vars

\* the response chunks a finished send_msg has sent: its messages but the
\* indicators
SentChunks(t) ==
    SelectSeq(tasks[t].sent, LAMBDA x : x \notin {MSG_READING, MSG_THINKING})

Answered(t) ==
    /\ tasks[t].msg.mention
    /\ tasks[t].pc \in {"finally", "done"}
    /\ tasks[t].raised = ""
    /\ tasks[t].thinking_msg # "none"

\* C24: the response goes out in chunks of at most CHUNK_SIZE characters, and
\* a chunk that is followed by another and holds a line end stops at a line
\* end: no chunk boundary falls inside a line that could have been kept whole.
C24_ChunksAtLineEnds ==
    \A t \in 1..Len(tasks) :
        Answered(t) =>
            LET chunks == SentChunks(t)
            IN \A k \in 1..Len(chunks) :
                  /\ Len(chunks[k]) <= CHUNK_SIZE
                  /\ (k < Len(chunks) /\ InSeq("\n", chunks[k])) =>
                         chunks[k][Len(chunks[k])] = "\n"

\* C25: the turns sent to the provider for one request, the loaded history
\* and the new turn, are never more than HISTORY_LIMIT.
C25_WindowBounded ==
    \A t \in 1..Len(tasks) : Len(tasks[t].messages) <= HISTORY_LIMIT

\* the blocks a request message carries for a turn: as many as the turn has,
\* each one the turn's block, the first with the author's label before its text
Carries(sent, username, blocks) ==
    /\ Len(sent) = Len(blocks)
    /\ \A i \in 1..Len(blocks) :
          sent[i] = IF i = 1 THEN Labelled(username, blocks)[1] ELSE blocks[i]

\* C26: the request built for an inbound message carries every content block
\* of every turn of the loaded window and of the new turn, in order.
C26_WholeContext ==
    \A t \in 1..Len(tasks) :
        tasks[t].pc = "provider" =>
            LET task == tasks[t]
                n == Len(task.conversation)
            IN /\ Len(task.messages) = n + 1
               /\ \A i \in 1..n :
                     Carries(task.messages[i].content,
                             task.conversation[i].author.username,
                             task.conversation[i].content)
               /\ Carries(task.messages[n + 1].content, UserName(task.msg.author),
                          task.content)

\* C27: within a request the user turn is persisted before any completion
\* request is issued and the assistant turn claude_<id> only after a
\* completion has returned; a failed plain completion leaves exactly the user
\* turn added and no assistant turn.
C27_TurnOrder ==
    \A t \in 1..Len(tasks) :
        LET task == tasks[t]
            user == StrId(task.id)
            reply == ClaudeId(user)
            issued == task.asked # <<>> \/ requests # <<>>
            completed == (task.asked # <<>> /\ task.raised # "provider") \/ returned # <<>>
        IN /\ issued => HasTurn(user)
           /\ HasTurn(reply) => (HasTurn(user) /\ completed)
           /\ (Finished(t) /\ task.raised = "provider") =>
                 /\ ~HasTurn(reply)
                 /\ Cardinality({i \in 1..Len(channel_messages) :
                                    channel_messages[i].message_id = user}) = 1
                 /\ \A i \in 1..Len(channel_messages) :
                       \/ channel_messages[i].message_id = user
                       \/ InSeq(channel_messages[i], SampleLog(2, FALSE))

\* C28: a mention with text or attachments whose storage calls all succeed
\* leads to a completion request, whatever the kind of its first content
\* block.
C28_AnyFirstBlock ==
    \A t \in 1..Len(tasks) :
        LET task == tasks[t]
        IN (/\ Finished(t)
            /\ task.msg.mention
            /\ (task.msg.text # <<>> \/ task.msg.files # <<>>)
            /\ task.raised \notin {"store_attachment", "get_user_preferences", "update_convo"})
           => (task.asked # <<>> \/ requests # <<>>)

\* how many persisted turns carry the id
TurnCount(message_id) ==
    Cardinality({i \in 1..Len(channel_messages) :
                    channel_messages[i].message_id = message_id})

\* the request has appended its user turn; its assistant turn
UserTurnStored(t) == tasks[t].pc = "provider" \/ tasks[t].asked # <<>>
ResponseStored(t) ==
    \/ tasks[t].pc = "send"
    \/ tasks[t].pc \in {"finally", "done"} /\ tasks[t].raised = "" /\ tasks[t].asked # <<>>

\* C29: under every interleaving of the requests of one channel, the user
\* turn each request appended and the assistant turn each request appended
\* are in the persisted log, once each, with the content the request gave
\* them, and the log holds no other turn but those it started with.
C29_NoTurnLost ==
    /\ \A t \in 1..Len(tasks) :
          /\ TurnCount(StrId(tasks[t].id)) = (IF UserTurnStored(t) THEN 1 ELSE 0)
          /\ TurnCount(ClaudeId(StrId(tasks[t].id))) = (IF ResponseStored(t) THEN 1 ELSE 0)
          /\ UserTurnStored(t) =>
                \E i \in 1..Len(channel_messages) :
                    /\ channel_messages[i].message_id = StrId(tasks[t].id)
                    /\ channel_messages[i].content = <<TextBlock(tasks[t].msg.text)>>
                    /\ channel_messages[i].author.user_id = tasks[t].msg.author
    /\ \E n \in {0, 2} : IsPrefix(SampleLog(n, FALSE), channel_messages)
    /\ Len(channel_messages) <= 2 + 2 * Len(tasks)

\* two requests of one channel have run interleaved, each loading the
\* conversation before the other appended, and both have been answered
C29_Witness ==
    /\ Len(tasks) >= 2
    /\ Finished(1) /\ Finished(2)
    /\ tasks[1].raised = "" /\ tasks[2].raised = ""
    /\ Len(channel_messages) = 4
    /\ ~channel_messages[1].author.is_bot
    /\ ~channel_messages[2].author.is_bot
    /\ channel_messages[3].message_id = ClaudeId(StrId(2))
    /\ channel_messages[4].message_id = ClaudeId(StrId(1))

OwnMessage(t) == tasks[t].msg.author = CLAUDE

\* C30: for a message the bot itself wrote, on_message returns at once: it
\* sends nothing, issues no completion request, persists no turn, dispatches
\* no command and confirms no pending command; the arrival of such a message
\* changes nothing in the store and in no other handler.
C30_NoSelfReaction ==
    /\ [](\A t \in 1..Len(tasks) :
            /\ OwnMessage(t) =>
                  /\ Finished(t)
                  /\ tasks[t].sent = <<>>
                  /\ tasks[t].asked = <<>>
                  /\ tasks[t].raised = ""
                  /\ tasks[t].reading_msg = "none" /\ tasks[t].thinking_msg = "none"
                  /\ ~HasTurn(StrId(tasks[t].id))
                  /\ ~HasTurn(ClaudeId(StrId(tasks[t].id)))
            /\ tasks[t].confirmed_by # NoMessage => tasks[t].confirmed_by.author # CLAUDE)
    /\ [][(Len(tasks') > Len(tasks) /\ tasks'[Len(tasks')].msg.author = CLAUDE) =>
             /\ UNCHANGED <<storeVars, thinkVars, invoked>>
             /\ \A t \in 1..Len(tasks) : tasks'[t] = tasks[t]]_vars

\* while u1's delete-history waits for its confirmation, the bot's own
\* messages arrive, one reading as the command and one as the reply "y"
C30_Witness ==
    \E w, a, b \in 1..Len(tasks) :
        /\ w < a /\ a < b
        /\ tasks[w].msg.cmd = "delete-history" /\ tasks[w].pc = "wait"
        /\ OwnMessage(a) /\ tasks[a].msg.cmd = "delete-history"
        /\ OwnMessage(b) /\ tasks[b].msg.text = <<"y">>

HasEffort(p) == "reasoning_effort" \in DOMAIN p
HasRecord(u) == u \in DOMAIN user_preferences

\* C31: under every interleaving of one user's scale, effort and
\* delete-history commands, a stored preference record holds a
\* reasoning_effort exactly when its scaling_mode is true; a handler that
\* reads the preferences of a user without a record reads plain mode and no
\* budget; an effort command that reads plain mode leaves the preferences as
\* they are and answers with the request to enable scaling; and a scale
\* command writes plain mode without a budget when it has read scaling mode,
\* and scaling mode with the default budget when it has read plain mode,
\* whatever budget was set before.
C31_ModeAndBudget ==
    /\ [](\A u \in DOMAIN user_preferences :
             /\ "scaling_mode" \in DOMAIN user_preferences[u]
             /\ HasEffort(user_preferences[u]) <=> user_preferences[u].scaling_mode)
    /\ [][\A t \in 1..Len(tasks) :
             LET task == tasks[t]
                 u == task.msg.author
                 after == tasks'[t]
             IN Stepped(t) =>
                /\ (task.pc \in {"prefs", "scale_read"} /\ ~HasRecord(u) /\ after.raised = "") =>
                      after.user_prefs = [scaling_mode |-> FALSE]
                /\ (task.pc = "status_read" /\ ~HasRecord(u) /\ after.raised = "") =>
                      after.sent = <<MSG_STATUS("normal", "n/a")>>
                /\ (task.pc = "effort_read"
                      /\ ~PrefScaling(get_user_preferences(u)) /\ after.raised = "") =>
                      /\ after.pc = "done"
                      /\ after.sent = <<MSG_NEED_SCALE>>
                      /\ user_preferences' = user_preferences
                /\ (task.pc = "provider" /\ ~PrefScaling(task.user_prefs)) =>
                      after.asked = <<PlainRequest(task.messages)>>
                /\ (task.pc = "scale_write" /\ after.raised = "") =>
                      /\ HasRecord(u)'
                      /\ user_preferences'[u] =
                            IF PrefScaling(task.user_prefs)
                            THEN [scaling_mode |-> FALSE]
                            ELSE [scaling_mode |-> TRUE, reasoning_effort |-> EFFORT_DEFAULT]]_vars

\* the budget set to 5, scaling switched off and on again: the budget is 6
C31_Witness ==
    /\ HasRecord("u1")
    /\ user_preferences["u1"] = [scaling_mode |-> TRUE, reasoning_effort |-> EFFORT_DEFAULT]
    /\ \E a, b, c \in 1..Len(tasks) :
          /\ Finished(a) /\ tasks[a].sent = <<MSG_EFFORT_SET(5)>>
          /\ Finished(b) /\ tasks[b].sent = <<MSG_SCALE_OFF>>
          /\ Finished(c) /\ tasks[c].sent = <<MSG_SCALE_ON>>

\* an effort command has read plain mode, with no record stored, and changed
\* nothing
C31_WitnessPlain ==
    /\ ~HasRecord("u1")
    /\ \E t \in 1..Len(tasks) :
          /\ tasks[t].msg.cmd = "effort" /\ tasks[t].msg.value = 5
          /\ Finished(t)
          /\ tasks[t].sent = <<MSG_NEED_SCALE>>

====
